---- MODULE Spec2Model ----
(***************************************************************************)
(* The GakuNin RDM content provider of repo2docker                         *)
(* (src/repo2docker/contentproviders/rdm): detect() derives an identity   *)
(* for a remote directory, fetch() walks the remote tree asynchronously    *)
(* and hands progress lines to a synchronous caller through a queue.       *)
(*                                                                         *)
(* Strings are sequences of tokens.  A token is a piece of text holding    *)
(* no separator; the separators "/", "\\" and "-" and the placeholder      *)
(* "$default_storage_path" are tokens of their own, so that str.strip,     *)
(* str.startswith, str.replace, str.index, os.path.join and "{}-{}".format *)
(* are computed on the text and not assumed.                               *)
(***************************************************************************)
EXTENDS Integers, Sequences, FiniteSets, TLC

VARIABLES
    remote,     \* the project the remote storage service holds
    files,      \* local file system: path -> content of every regular file
    dirs,       \* local file system: the directories
    rdm,        \* the provider instance: self.project_id, self.path, self.uuid
    caller,     \* the synchronous caller of detect() / fetch()
    task,       \* the coroutine running on the event loop
    queue,      \* the asyncio.Queue between them
    pushed,     \* history: every progress line put on the queue by this fetch
    delivered,  \* history: every progress line yielded to the caller by this fetch
    prov,       \* the Provisioner: _copy_mappings, _link_mappings
    stats,      \* history: what the operation in flight has done so far
    hist,       \* history: identities returned, hashes computed
    clock,      \* sources of fresh names: uuid.uuid1(), tempfile.mkdtemp()
    budget      \* how many more operations / injected failures this run takes

vars == <<remote, files, dirs, rdm, caller, task, queue, pushed, delivered,
          prov, stats, hist, clock, budget>>

----------------------------------------------------------------------------
(* Bounds of the model.                                                    *)

MaxLocates == 2
MaxFetches == 2
MaxFailures == 1
MaxRemoteChanges == 1

----------------------------------------------------------------------------
(* Text.                                                                   *)

SL == "/"
BSL == "\\"
DASH == "-"
DOT == "."
PLACEHOLDER == "$default_storage_path"

\* Python's None where a string is expected (ref, local_dir) and where an
\* object is expected (a looked-up node, a queue item)
None == <<"<None>">>
Missing == [missing |-> TRUE]

SubStr(s, i, j) == [k \in 1..(j - i + 1) |-> s[i + k - 1]]
From(s, i) == SubStr(s, i, Len(s))
StartsWith(s, p) == Len(s) >= Len(p) /\ SubStr(s, 1, Len(p)) = p
EndsWith(s, p) == Len(s) >= Len(p) /\ From(s, Len(s) - Len(p) + 1) = p
Contains(s, c) == \E i \in 1..Len(s) : s[i] = c
\* str.index(c): position of the first c
Index(s, c) == CHOOSE i \in 1..Len(s) : s[i] = c /\ \A j \in 1..(i - 1) : s[j] # c

RECURSIVE lstrip(_, _)
lstrip(s, c) == IF s # <<>> /\ Head(s) = c THEN lstrip(Tail(s), c) ELSE s
RECURSIVE rstrip(_, _)
rstrip(s, c) ==
    IF s # <<>> /\ s[Len(s)] = c THEN rstrip(SubStr(s, 1, Len(s) - 1), c) ELSE s
strip(s, c) == lstrip(rstrip(s, c), c)

\* str.replace(tok, by)
RECURSIVE replace(_, _, _)
replace(s, tok, by) ==
    IF s = <<>> THEN <<>>
    ELSE (IF Head(s) = tok THEN by ELSE <<Head(s)>>) \o replace(Tail(s), tok, by)

\* os.path.join(a, b)
os_path_join(a, b) ==
    IF StartsWith(b, <<SL>>) THEN b
    ELSE IF a = <<>> \/ EndsWith(a, <<SL>>) THEN a \o b
    ELSE a \o <<SL>> \o b

\* the part of s before the first "/", all of s when it has none
BeforeSlash(s) == IF Contains(s, SL) THEN SubStr(s, 1, Index(s, SL) - 1) ELSE s
AfterSlash(s) == From(s, Index(s, SL) + 1)

\* F(e), with e evaluated once
Apply(F(_), e) == CHOOSE r \in {F(x) : x \in {e}} : TRUE

RECURSIVE Concat(_)
Concat(ss) == IF ss = <<>> THEN <<>> ELSE Head(ss) \o Concat(Tail(ss))

----------------------------------------------------------------------------
(* The remote storage service: project / storage / folder / file.          *)

File(name, content) == [name |-> name, content |-> content]
Folder(name, fs, ds) == [name |-> name, files |-> fs, folders |-> ds]
Project(id, storages) == [id |-> id, storages |-> storages]

Data(c) == [data |-> c]

\* osfclient.utils.find_by_path as the provider calls it: descend from a
\* storage along the "/"-separated path; the last segment may name a folder
\* or a file; None (Missing) when a segment is missing.
RECURSIVE find_by_path(_, _)
find_by_path(node, path) ==
    LET Find(p) ==
            LET seg == BeforeSlash(p)
                ds == {i \in 1..Len(node.folders) : node.folders[i].name = seg}
                fs == {i \in 1..Len(node.files) : node.files[i].name = seg}
            IN  IF p = <<>> THEN [kind |-> "folder", node |-> node]
                ELSE IF Contains(p, SL)
                THEN IF ds = {} THEN Missing
                     ELSE find_by_path(
                              node.folders[CHOOSE i \in ds : \A j \in ds : i <= j],
                              AfterSlash(p))
                ELSE IF ds # {}
                THEN [kind |-> "folder",
                      node |-> node.folders[CHOOSE i \in ds : \A j \in ds : i <= j]]
                ELSE IF fs # {}
                THEN [kind |-> "file",
                      node |-> node.files[CHOOSE i \in fs : \A j \in fs : i <= j]]
                ELSE Missing
    IN  Apply(Find, strip(path, SL))

\* Project.storage(provider): the storage of that name, else RuntimeError
HasStorage(project, name) ==
    \E i \in 1..Len(project.storages) : project.storages[i].name = name
storage(project, name) ==
    project.storages[CHOOSE i \in 1..Len(project.storages) :
                        project.storages[i].name = name]

----------------------------------------------------------------------------
(* URL parser (url.py).                                                    *)

KnownHost == "https://test.some.host.nii.ac.jp/"

\* RDMURL.project_id
project_id(url) == BeforeSlash(lstrip(url.path, SL))

\* a variant of project_path that takes the "dir/" marker without "files/"
project_path_any_marker(url) ==
    LET p == lstrip(url.path, SL) IN
    IF ~Contains(p, SL) THEN <<>>
    ELSE LET path == AfterSlash(p)
             q == IF StartsWith(path, <<"files", SL>>) THEN From(path, 3) ELSE path
         IN  IF StartsWith(q, <<"dir", SL>>) THEN From(q, 3) ELSE q

\* RDMURL.project_path
project_path(url) ==
    LET p == lstrip(url.path, SL) IN
    IF ~Contains(p, SL) THEN <<>>
    ELSE LET path == AfterSlash(p) IN
         IF ~StartsWith(path, <<"files", SL>>) THEN path
         ELSE LET q == From(path, 3) IN
              IF ~StartsWith(q, <<"dir", SL>>) THEN q
              ELSE From(q, 3)

----------------------------------------------------------------------------
(* The local file system.                                                  *)

ROOT == <<SL>>
OUTPUT_DIR == <<SL, "out">>
TMP == <<SL, "tmp">>

\* a variant of os.path.exists that sees directories only
exists_dirs_only(fl, ds, p) == p \in ds

\* os.path.exists(p)
exists(fl, ds, p) == p \in DOMAIN fl \/ p \in ds
isdir(ds, p) == p \in ds

\* p and every directory above it, up to the root
Ancestors(p) ==
    {SubStr(p, 1, i) : i \in {j \in 1..Len(p) : j = Len(p) \/ (j > 1 /\ p[j + 1] = SL)}}
        \cup {ROOT}

\* os.makedirs(p) can succeed: nothing on the way is a regular file
CanMakedirs(fl, p) == Ancestors(p) \cap DOMAIN fl = {}
makedirs(ds, p) == ds \cup Ancestors(p)

Below(p, d) == StartsWith(p, d \o <<SL>>)

\* shutil.rmtree(d)
rmtree_files(fl, d) == [p \in {q \in DOMAIN fl : ~Below(q, d)} |-> fl[p]]
rmtree_dirs(ds, d) == {q \in ds : q # d /\ ~Below(q, d)}

\* what a call of shutil.rmtree(d) can come to: the tree is removed; or the
\* call raises OSError, at once or after the content of d has gone
RmtreeOutcomes == {"removed", "kept", "emptied"}
RmtreeError == "OSError: rmtree"
rmtree_outcome_files(fl, d, o) == IF o = "kept" THEN fl ELSE rmtree_files(fl, d)
rmtree_outcome_dirs(ds, d, o) ==
    IF o = "kept" THEN ds
    ELSE IF o = "emptied" THEN rmtree_dirs(ds, d) \cup {d}
    ELSE rmtree_dirs(ds, d)

\* open(p, "wb") followed by writing content c
write_file(fl, p, c) == [q \in DOMAIN fl \cup {p} |-> IF q = p THEN c ELSE fl[q]]

----------------------------------------------------------------------------
(* Directory hasher (hash.py).                                             *)

\* the tokens of the model in the order of their text
TokenOrder ==
    <<"-", ".", ".binder", "..", "/", "1", "2", "3", "4", "binder", "data", "env",
      "f1", "f2", "gdrive", "osfstorage", "out", "paths.yaml", "paths.yml",
      "provision.sh", "sub", "tmp">>
Rank(tok) == CHOOSE i \in 1..Len(TokenOrder) : TokenOrder[i] = tok

\* a < b as Python compares str
RECURSIVE StrLess(_, _)
StrLess(a, b) ==
    IF b = <<>> THEN FALSE
    ELSE IF a = <<>> THEN TRUE
    ELSE IF Head(a) = Head(b) THEN StrLess(Tail(a), Tail(b))
    ELSE Rank(Head(a)) < Rank(Head(b))

\* sorted(S)
sorted(S) ==
    LET Sort(T) ==
            LET before == [x \in T |-> Cardinality({y \in T : StrLess(y, x)})]
            IN  [i \in 1..Cardinality(T) |-> CHOOSE x \in T : before[x] = i - 1]
    IN  Apply(Sort, S)

relpath(p, d) == From(p, Len(d) + 2)

\* a variant of the entries of the walk that leaves the directories out
WalkEntries_files_only(fl, ds, path) ==
    {relpath(p, path) : p \in {q \in DOMAIN fl : Below(q, path)}}

\* the relative paths os.walk(path) comes by: every file and directory below
WalkEntries(fl, ds, path) ==
    {relpath(p, path) : p \in {q \in DOMAIN fl \cup ds : Below(q, path)}}

\* a variant of sorted(all_paths) that keeps the order of the walk
as_walked(all_paths) == all_paths

\* sorted(all_paths), all_paths the list in the order of the walk
sorted_paths(all_paths) == sorted({all_paths[i] : i \in 1..Len(all_paths)})

\* the records sha256.update receives, in order, all_paths being the list
\* the walk has built
HashFeedOf(all_paths, fl, path) ==
    LET isfile(r) == os_path_join(path, r) \in DOMAIN fl
        content(r) ==
            IF isfile(r)
            THEN <<[rec |-> "CONTENT", path |-> r, bytes |-> fl[os_path_join(path, r)]]>>
            ELSE <<>>
        Feed(order) ==
            [i \in 1..Len(order) |-> [rec |-> "PATH", path |-> order[i], bytes |-> <<>>]]
            \o Concat([i \in 1..Len(order) |-> content(order[i])])
    IN  Apply(Feed, sorted_paths(all_paths))

\* the records fed for one order of the walk
HashFeed(fl, ds, path) == HashFeedOf(sorted(WalkEntries(fl, ds, path)), fl, path)

\* the bytes sha256.update receives for the records: "PATH:<path>\\n" for a
\* path record, "CONTENT:<path>\\n" and then the raw content for a content
\* record, one after the other; a mapping document stands for its text
encode(feed) ==
    LET raw(b) == IF "data" \in DOMAIN b THEN b.data ELSE ToString(b)
        Record(r) ==
            IF r.rec = "PATH" THEN <<"PATH:">> \o r.path \o <<"\n">>
            ELSE <<"CONTENT:">> \o r.path \o <<"\n">>
                 \o [k \in 1..Len(r.bytes) |-> raw(r.bytes[k])]
        Encode(f) == Concat([i \in 1..Len(f) |-> Apply(Record, f[i])])
    IN  Apply(Encode, feed)

\* sha256(...).hexdigest() of the bytes fed: one token, a text that holds
\* no separator; different byte sequences give different digests
hexdigest(feed) == <<ToString(encode(feed))>>

compute_directory_hash(fl, ds, path) == hexdigest(HashFeed(fl, ds, path))

----------------------------------------------------------------------------
(* The remote walk (RDM._fetch_all), as the list of entries it visits.     *)

\* a variant of the check that looks for the forward slash only
HasSeparator_slash_only(name) == Contains(name, SL)

HasSeparator(name) == Contains(name, SL) \/ Contains(name, BSL)

\* the entries _fetch_all(storage, output_dir, local_dir) visits, in order:
\* the files of the folder, then each sub-folder followed by its own entries
RECURSIVE fetch_all(_, _, _, _)
fetch_all(folder, output_dir, local_dir, rpath) ==
    LET fileItem(f) ==
            [kind |-> "file", name |-> f.name, content |-> f.content,
             path |-> rpath \o <<SL>> \o f.name,
             output_dir |-> output_dir, local_dir |-> local_dir]
        sub(d) ==
            <<[kind |-> "folder", name |-> d.name, content |-> <<>>,
               path |-> rpath \o <<SL>> \o d.name \o <<SL>>,
               output_dir |-> output_dir, local_dir |-> local_dir]>>
            \o (IF HasSeparator(d.name) THEN <<>>
                ELSE fetch_all(d, output_dir,
                               IF local_dir # None THEN os_path_join(local_dir, d.name)
                               ELSE d.name,
                               rpath \o <<SL>> \o d.name))
    IN  [i \in 1..Len(folder.files) |-> fileItem(folder.files[i])]
        \o Concat([i \in 1..Len(folder.folders) |-> sub(folder.folders[i])])

\* a variant of local_path that drops the local directory
local_path_flat(item) == item.name

\* the local names _fetch_all computes for a file entry
local_path(item) ==
    IF item.local_dir # None THEN os_path_join(item.local_dir, item.name) ELSE item.name
local_dir_path(item) ==
    IF item.local_dir # None THEN os_path_join(item.output_dir, item.local_dir)
    ELSE item.output_dir
local_file_path(item) == os_path_join(item.output_dir, local_path(item))


----------------------------------------------------------------------------
(* Path-mapping model (paths.py).  A mapping document is what yaml.load    *)
(* returns: a record with the keys the document has.                       *)

Yaml(doc) == [yaml |-> doc]

\* yaml.load(f): the document a local file holds; a file that holds no
\* document (empty, cut short) loads as None
yaml_load(content) ==
    IF Len(content) = 1 /\ DOMAIN content[1] = {"yaml"} THEN content[1].yaml ELSE Missing

\* a variant of _validate_mapping that looks at the target first
validate_mapping_target_first(m) ==
    IF "target" \notin DOMAIN m THEN "No target key in mapping."
    ELSE IF ~StartsWith(m.target, <<DOT, SL>>) /\ m.target # <<DOT>>
    THEN "Target path must be relative to the output directory"
    ELSE IF "type" \notin DOMAIN m THEN "No type key in mapping."
    ELSE IF m.type \notin {"copy", "link"} THEN "Invalid type in mapping"
    ELSE IF "source" \notin DOMAIN m THEN "No source key in mapping."
    ELSE "ok"

\* PathMappingImpl._validate_mapping: "ok", or the ValueError it raises
validate_mapping(m) ==
    IF "type" \notin DOMAIN m THEN "No type key in mapping."
    ELSE IF m.type \notin {"copy", "link"} THEN "Invalid type in mapping"
    ELSE IF "source" \notin DOMAIN m THEN "No source key in mapping."
    ELSE IF "target" \notin DOMAIN m THEN "No target key in mapping."
    ELSE IF ~StartsWith(m.target, <<DOT, SL>>) /\ m.target # <<DOT>>
    THEN "Target path must be relative to the output directory"
    ELSE "ok"

\* PathMappingImpl.get_source / get_target
get_source(m, default_storage_path) ==
    strip(replace(m.source, PLACEHOLDER, default_storage_path), SL)
get_target(m) == rstrip(m.target, SL)

\* a variant of PathsMapping.__init__ that validates the first entry only and
\* leaves the others for the time they are used
PathsMappingError_first_entry(doc) ==
    IF doc = Missing THEN "AttributeError"
    ELSE IF "paths" \notin DOMAIN doc THEN "No paths key in mapping."
    ELSE IF doc.paths # <<>> /\ validate_mapping(doc.paths[1]) # "ok"
    THEN validate_mapping(doc.paths[1])
    ELSE IF \E i \in 1..Len(doc.paths) : "type" \notin DOMAIN doc.paths[i]
    THEN "No type key in mapping."
    ELSE "ok"

\* PathsMapping.__init__: "ok", or the error of the first step that raises
PathsMappingError(doc) ==
    IF doc = Missing THEN "AttributeError"
    ELSE IF "paths" \notin DOMAIN doc THEN "No paths key in mapping."
    ELSE LET bad == {i \in 1..Len(doc.paths) : validate_mapping(doc.paths[i]) # "ok"}
         IN  IF bad = {} THEN "ok"
             ELSE validate_mapping(doc.paths[CHOOSE i \in bad : \A j \in bad : i <= j])

Override(doc) == IF "override" \in DOMAIN doc THEN doc.override ELSE FALSE

RECURSIVE SelectType(_, _)
SelectType(ms, type) ==
    IF ms = <<>> THEN <<>>
    ELSE (IF Head(ms).type = type THEN <<Head(ms)>> ELSE <<>>) \o SelectType(Tail(ms), type)

DefaultMapping == [type |-> "copy", source |-> <<PLACEHOLDER>>, target |-> <<DOT>>]

\* a variant of get_paths_to_copy that puts the default rule last
get_paths_to_copy_default_last(doc) ==
    IF ~Override(doc) THEN SelectType(doc.paths, "copy") \o <<DefaultMapping>>
    ELSE SelectType(doc.paths, "copy")

\* PathsMapping.get_paths_to_copy / get_paths_to_link
get_paths_to_copy(doc) ==
    IF ~Override(doc) THEN <<DefaultMapping>> \o SelectType(doc.paths, "copy")
    ELSE SelectType(doc.paths, "copy")
get_paths_to_link(doc) == SelectType(doc.paths, "link")

----------------------------------------------------------------------------
(* Provisioner (provisioner.py).                                           *)

MNT_RDM_DIR == <<SL, "mnt", SL, "rdm", SL>>

\* Provisioner._resolve_source: the remote node, or the ValueError raised
resolve_source(project, default_storage_path, m) ==
    LET Resolve(source) ==
            LET source_storage_name == BeforeSlash(source)
            IN  IF ~HasStorage(project, source_storage_name)
                THEN [error |-> "Could not find storage"]
                ELSE IF ~Contains(source, SL)
                THEN [kind |-> "folder", node |-> storage(project, source_storage_name)]
                ELSE LET found == find_by_path(storage(project, source_storage_name),
                                               AfterSlash(source))
                     IN  IF found = Missing THEN [error |-> "Could not find path"]
                         ELSE found
    IN  Apply(Resolve, get_source(m, default_storage_path))

\* Provisioner.add_copy_mapping / add_link_mapping: the pair appended to the
\* plan, or the ValueError raised
add_copy_mapping(project, default_storage_path, m) ==
    LET source == resolve_source(project, default_storage_path, m)
    IN  IF "error" \in DOMAIN source THEN source
        ELSE [mapping |-> m, source |-> source.kind]
\* a variant of add_link_mapping without the check of the target
add_link_mapping_unchecked(project, default_storage_path, m) ==
    LET source == resolve_source(project, default_storage_path, m)
    IN  IF "error" \in DOMAIN source THEN source
        ELSE [mapping |-> m, source |-> source.kind]

add_link_mapping(project, default_storage_path, m) ==
    IF rstrip(get_target(m), SL) = <<DOT>>
    THEN [error |-> "Target path cannot be '.' for link mapping"]
    ELSE LET source == resolve_source(project, default_storage_path, m)
         IN  IF "error" \in DOMAIN source THEN source
             ELSE [mapping |-> m, source |-> source.kind]

\* the tokens that hold a character shlex.quote does not take for safe
UnsafeTokens == {"my dir", " ", "'", "*", BSL, PLACEHOLDER}

\* a variant of shlex.quote that quotes nothing
shlex_quote_never(s) == s

\* shlex.quote(s)
shlex_quote(s) ==
    IF s = <<>> THEN <<"'", "'">>
    ELSE IF \A i \in 1..Len(s) : s[i] \notin UnsafeTokens THEN s
    ELSE <<"'">> \o replace(s, "'", <<"'", "\"", "'", "\"", "'">>) \o <<"'">>

\* os.path.dirname(p)
os_path_dirname(p) ==
    LET at == {i \in 1..Len(p) : p[i] = SL}
        head == IF at = {} THEN <<>>
                ELSE SubStr(p, 1, CHOOSE i \in at : \A j \in at : j <= i)
    IN  IF head # <<>> /\ (\E i \in 1..Len(head) : head[i] # SL) THEN rstrip(head, SL)
        ELSE head

ScriptLine(text) == [script |-> text]
Mkdir(path) == ScriptLine(<<"mkdir -p ">> \o shlex_quote(path))
\* f.write("mkdir -p ...") when the directory is neither "." nor ""
MkdirUnlessHere(path) ==
    IF strip(path, SL) # <<DOT>> /\ strip(path, SL) # <<>> THEN <<Mkdir(path)>> ELSE <<>>

\* save_provision_script: the lines of one copy rule
CopyLines(e, default_storage_path, mnt) ==
    LET source_path == os_path_join(mnt, get_source(e.mapping, default_storage_path))
        target_path == get_target(e.mapping)
        parents ==
            IF target_path # <<DOT, SL>> /\ EndsWith(target_path, <<SL>>)
            THEN MkdirUnlessHere(target_path)
            ELSE IF target_path # <<DOT, SL>> /\ Contains(target_path, SL)
            THEN MkdirUnlessHere(os_path_dirname(target_path))
            ELSE <<>>
        target_dir == IF target_path # <<DOT>> /\ ~EndsWith(target_path, <<SL>>)
                      THEN target_path \o <<SL>> ELSE target_path
        source_dir == IF ~EndsWith(source_path, <<SL>>) THEN source_path \o <<SL>>
                      ELSE source_path
    IN  parents \o
        (IF e.source = "folder"
         THEN MkdirUnlessHere(target_dir)
              \o <<ScriptLine(<<"cp -fr ">> \o shlex_quote(source_dir) \o <<"*", " ">>
                              \o shlex_quote(target_dir))>>
         ELSE <<ScriptLine(<<"cp ">> \o shlex_quote(source_path) \o <<" ">>
                           \o shlex_quote(target_path))>>)

\* a variant of the link branch that never creates the parent directory
LinkLines_no_parent(e, default_storage_path, mnt) ==
    <<ScriptLine(<<"ln -s ">>
                 \o shlex_quote(os_path_join(mnt, get_source(e.mapping, default_storage_path)))
                 \o <<" ">> \o shlex_quote(get_target(e.mapping)))>>

\* save_provision_script: the lines of one link rule
LinkLines(e, default_storage_path, mnt) ==
    LET source_path == os_path_join(mnt, get_source(e.mapping, default_storage_path))
        target_path == get_target(e.mapping)
    IN  (IF target_path # <<DOT, SL>> /\ Contains(strip(target_path, SL), SL)
         THEN MkdirUnlessHere(os_path_dirname(target_path)) ELSE <<>>)
        \o <<ScriptLine(<<"ln -s ">> \o shlex_quote(source_path) \o <<" ">>
                        \o shlex_quote(target_path))>>

\* a variant of save_provision_script that writes the lines of the link plan
\* before those of the copy plan
provision_script_links_first(copy_mappings, link_mappings, default_storage_path, mnt) ==
    <<ScriptLine(<<"#!/bin/bash">>), ScriptLine(<<"set -xe">>)>>
    \o Concat([i \in 1..Len(link_mappings) |->
                  LinkLines(link_mappings[i], default_storage_path, mnt)])
    \o Concat([i \in 1..Len(copy_mappings) |->
                  CopyLines(copy_mappings[i], default_storage_path, mnt)])

\* Provisioner.save_provision_script: the lines written, the shebang and
\* "set -xe", then the lines of the copy plan, then those of the link plan
provision_script(copy_mappings, link_mappings, default_storage_path, mnt) ==
    <<ScriptLine(<<"#!/bin/bash">>), ScriptLine(<<"set -xe">>)>>
    \o Concat([i \in 1..Len(copy_mappings) |->
                  CopyLines(copy_mappings[i], default_storage_path, mnt)])
    \o Concat([i \in 1..Len(link_mappings) |->
                  LinkLines(link_mappings[i], default_storage_path, mnt)])

NewProvisioner == [copy |-> <<>>, link |-> <<>>]


----------------------------------------------------------------------------
(* Inputs: remote projects, URLs, references.                              *)

P == <<"p">>
OSFSTORAGE == <<"osfstorage">>
F1 == File(<<"f1">>, <<Data("a"), Data("b")>>)
F1x == File(<<"f1">>, <<Data("x")>>)
F2 == File(<<"f2">>, <<Data("c")>>)
Env(c) == File(<<"env">>, <<Data(c)>>)
Sub == Folder(<<"sub">>, <<F2>>, <<>>)

\* no configuration folder
Plain == Project(P, <<Folder(OSFSTORAGE, <<F1>>, <<Sub>>)>>)
\* a configuration folder, and two projects that differ only outside it
Binder1 == Project(P, <<Folder(OSFSTORAGE, <<F1>>,
                               <<Folder(<<"binder">>, <<Env("a")>>, <<>>), Sub>>)>>)
Binder1x == Project(P, <<Folder(OSFSTORAGE, <<F1x, F2>>,
                                <<Folder(<<"binder">>, <<Env("a")>>, <<>>)>>),
                         Folder(<<"gdrive">>, <<F2>>, <<>>)>>)
\* another configuration folder
Binder2 == Project(P, <<Folder(OSFSTORAGE, <<F1>>,
                               <<Folder(<<"binder">>, <<Env("b")>>, <<Sub>>), Sub>>)>>)
\* both names, the dotted one listed first
BothBinders == Project(P, <<Folder(OSFSTORAGE, <<>>,
                                   <<Folder(<<".binder">>, <<Env("b")>>, <<>>),
                                     Folder(<<"binder">>, <<Env("a")>>, <<>>)>>)>>)

LocateRemotes == {Plain, Binder1, Binder1x, Binder2, BothBinders}

Url(host, path) == [host |-> host, path |-> path]
Urls ==
    { Url(KnownHost, <<SL, "p">>),
      Url(KnownHost, <<SL, "p", SL, "osfstorage">>),
      Url(KnownHost, <<SL, "p", SL, "files", SL, "dir", SL, "osfstorage", SL, "sub">>),
      Url(KnownHost, <<SL, "p", DASH, "q", SL, "files", SL, "osfstorage">>),
      Url("https://unknown.some.host.nii.ac.jp/", <<SL, "p">>) }

HEAD == <<"HEAD">>
Refs == {None, <<>>, HEAD, <<"r">>, <<"q", DASH, "r">>}

----------------------------------------------------------------------------
(* The provider (rdm/__init__.py).                                         *)

\* variants of _check_ref_defined: one that takes the empty reference for
\* undefined too, one that takes "HEAD" for a reference
check_ref_defined_nonempty(ref) == ~(ref = None \/ ref = HEAD \/ ref = <<>>)
check_ref_defined_head(ref) == ref # None

\* RDM._check_ref_defined
check_ref_defined(ref) == ~(ref = None \/ ref = HEAD)

\* a variant of content_id that leaves the uuid out
content_id_no_uuid(self) == self.project_id \o <<DASH>>

\* RDM.content_id: "{}-{}".format(self.project_id, self.uuid)
content_id(self) == self.project_id \o <<DASH>> \o self.uuid

\* str(uuid.uuid1()): a time field, fresh on every call, then the node field
uuid1(n) == <<ToString(n), DASH, "node">>

\* tempfile.mkdtemp()
mkdtemp(n) == os_path_join(TMP, <<ToString(n)>>)

BinderNames == {<<".binder">>, <<"binder">>}

RECURSIVE SelectFolders(_, _)
SelectFolders(ds, names) ==
    IF ds = <<>> THEN <<>>
    ELSE (IF Head(ds).name \in names THEN <<Head(ds)>> ELSE <<>>)
         \o SelectFolders(Tail(ds), names)

\* a variant of binder_folders that keeps the listing order
binder_folders_unsorted(node) == SelectFolders(node.folders, BinderNames)

\* the folders named "binder" or ".binder", sorted with "binder" first
binder_folders(node) ==
    SelectFolders(node.folders, {<<"binder">>}) \o SelectFolders(node.folders, {<<".binder">>})

Line(kind, a, b, c) == [kind |-> kind, a |-> a, b |-> b, c |-> c]
ItemLine(l) == [tag |-> "line", line |-> l, error |-> "", value |-> <<>>]
\* a variant of the error item that carries a new error in place of e
ItemErrorWrapped(e) ==
    [tag |-> "error", line |-> Line("", <<>>, <<>>, <<>>), error |-> "RuntimeError: fetch failed",
     value |-> <<>>]
ItemError(e) == [tag |-> "error", line |-> Line("", <<>>, <<>>, <<>>), error |-> e, value |-> <<>>]
ItemValue(v) == [tag |-> "value", line |-> Line("", <<>>, <<>>, <<>>), error |-> "", value |-> v]
ItemNone == [tag |-> "none", line |-> Line("", <<>>, <<>>, <<>>), error |-> "", value |-> <<>>]

NoTask ==
    [pc |-> "none", mode |-> "none", spec |-> [project_id |-> <<>>, path |-> <<>>],
     output_dir |-> <<>>, node |-> Missing, plan |-> <<>>, pos |-> 0,
     work_dir |-> None, binder_output_dirs |-> <<>>,
     copy |-> <<>>, link |-> <<>>, k |-> 0, raised |-> "", run |-> 0,
     hash |-> None, cleanup |-> "none"]

NoStats == [remote_calls |-> 0, mkdtemp |-> 0, hashes |-> 0, downloads |-> 0,
            interrupted |-> 0, hashing |-> FALSE]

NoCaller == [pc |-> "idle", op |-> "none", url |-> Url("", <<>>), ref |-> None,
             result |-> "", error |-> ""]

Idle == caller.pc \in {"idle", "returned", "raised", "ended"}
\* a variant of a loop that keeps running between two run_until_complete calls
Running_between_pulls(mode) == caller.pc \in {"waiting", "holding"} /\ task.mode = mode

Running(mode) == caller.pc = "waiting" /\ task.mode = mode

Called == [stats EXCEPT !.remote_calls = @ + 1]

\* a variant of Raise for a wrapper without its except and finally clauses:
\* the exception ends the coroutine and nothing is put on the queue
RaiseSilently(e, fl, ds) ==
    /\ files' = (IF task.work_dir # None THEN rmtree_files(fl, task.work_dir) ELSE fl)
    /\ dirs' = (IF task.work_dir # None THEN rmtree_dirs(ds, task.work_dir) ELSE ds)
    /\ queue' = queue
    /\ task' = [task EXCEPT !.pc = "done", !.work_dir = None, !.raised = e]

\* an exception e leaves the coroutine: _calculate_hash removes its work
\* directory (finally: shutil.rmtree, whose own exception takes the place of
\* e), the *_with_error wrapper puts the exception and then None
Raise(e, fl, ds) ==
    \E o \in (IF task.work_dir # None THEN RmtreeOutcomes ELSE {"none"}) :
        /\ files' = (IF o = "none" THEN fl ELSE rmtree_outcome_files(fl, task.work_dir, o))
        /\ dirs' = (IF o = "none" THEN ds ELSE rmtree_outcome_dirs(ds, task.work_dir, o))
        /\ queue' = queue \o <<ItemError(IF o \in {"kept", "emptied"} THEN RmtreeError ELSE e),
                                ItemNone>>
        /\ task' = [task EXCEPT !.pc = "done", !.work_dir = None, !.raised = e,
                                !.cleanup = o]

\* RDM.detect
detect(url, ref) ==
    /\ Idle
    /\ budget.locates > 0
    /\ budget' = [budget EXCEPT !.locates = @ - 1]
    /\ pushed' = <<>>
    /\ delivered' = <<>>
    /\ queue' = <<>>
    /\ UNCHANGED <<remote, files, dirs, prov, clock>>
    /\ IF url.host # KnownHost
       THEN /\ caller' = [NoCaller EXCEPT !.pc = "returned", !.op = "detect", !.url = url,
                                          !.ref = ref, !.result = "None"]
            /\ task' = NoTask
            /\ stats' = NoStats
            /\ UNCHANGED <<rdm, hist>>
       ELSE IF check_ref_defined(ref)
       THEN LET self == [project_id |-> project_id(url), path |-> project_path(url),
                         uuid |-> ref]
            IN  /\ rdm' = self
                /\ caller' = [NoCaller EXCEPT !.pc = "returned", !.op = "detect",
                                              !.url = url, !.ref = ref, !.result = "identity"]
                /\ task' = NoTask
                /\ stats' = NoStats
                /\ hist' = [hist EXCEPT
                       !.identities =
                           @ \cup {[project_id |-> self.project_id, path |-> self.path,
                                    uuid |-> self.uuid, content_id |-> content_id(self)]},
                       !.uuids = Append(@, self.uuid)]
       ELSE /\ rdm' = [rdm EXCEPT !.project_id = project_id(url), !.path = project_path(url)]
            /\ caller' = [NoCaller EXCEPT !.pc = "waiting", !.op = "detect", !.url = url,
                                          !.ref = ref]
            /\ task' = [NoTask EXCEPT !.pc = "project", !.mode = "hash",
                                      !.spec = [project_id |-> project_id(url),
                                                path |-> project_path(url)]]
            /\ stats' = [NoStats EXCEPT !.hashing = TRUE]
            /\ UNCHANGED hist


\* the path of the requested folder inside its storage, as the remote
\* service reports it in File.path
RemotePath(path) == IF Contains(path, SL) THEN <<SL>> \o AfterSlash(path) ELSE <<>>

\* osf.project(project_id)
OsfProject ==
    /\ caller.pc = "waiting"
    /\ task.pc = "project"
    /\ stats' = Called
    /\ IF task.spec.project_id = remote.id
       THEN /\ task' = [task EXCEPT !.pc =
                           IF task.mode = "fetch" /\ Len(task.spec.path) = 0
                           THEN "storages" ELSE "storage"]
            /\ UNCHANGED <<files, dirs, queue>>
       ELSE Raise("OSFException", files, dirs)
    /\ UNCHANGED <<remote, rdm, caller, pushed, delivered, prov, hist, clock, budget>>

\* project.storage(storage_name), the name being the path up to its first "/"
ProjectStorage ==
    /\ caller.pc = "waiting"
    /\ task.pc = "storage"
    /\ stats' = Called
    /\ LET path == rstrip(task.spec.path, SL)
           storage_name == BeforeSlash(path)
       IN  IF HasStorage(remote, storage_name)
           THEN /\ task' = [task EXCEPT
                               !.node = storage(remote, storage_name),
                               !.pc = IF task.mode = "fetch" /\ Contains(path, SL)
                                      THEN "subpath" ELSE "folders"]
                /\ UNCHANGED <<files, dirs, queue>>
           ELSE Raise("RuntimeError: Project has no storage provider", files, dirs)
    /\ UNCHANGED <<remote, rdm, caller, pushed, delivered, prov, hist, clock, budget>>

\* _calculate_hash: list the folders of the storage; without a binder folder
\* return None, else download the first one to a fresh work directory
HashFolders ==
    /\ Running("hash")
    /\ task.pc = "folders"
    /\ LET bf == binder_folders(task.node)
           work_dir == mkdtemp(clock.tmp)
       IN  IF bf = <<>>
           THEN /\ queue' = queue \o <<ItemNone, ItemNone>>
                /\ task' = [task EXCEPT !.pc = "done"]
                /\ stats' = Called
                /\ UNCHANGED <<dirs, clock>>
           ELSE /\ dirs' = dirs \cup {work_dir}
                /\ clock' = [clock EXCEPT !.tmp = @ + 1]
                /\ stats' = [Called EXCEPT !.mkdtemp = @ + 1]
                /\ task' = [task EXCEPT
                               !.pc = "walk", !.pos = 1, !.work_dir = work_dir,
                               !.plan = fetch_all(bf[1], work_dir, None, <<SL>> \o bf[1].name)]
                /\ UNCHANGED queue
    /\ UNCHANGED <<remote, files, rdm, caller, pushed, delivered, prov, hist, budget>>

SkipLine(item) == Line("Skip", item.path, local_path(item), item.output_dir)
FetchLine(item) == Line("Fetch", item.path, local_path(item), item.output_dir)

\* a variant of Emit that puts the line in front of the waiting items
EmitFront(l) ==
    IF task.mode = "fetch"
    THEN queue' = <<ItemLine(l)>> \o queue /\ pushed' = pushed \o <<l>>
    ELSE UNCHANGED <<queue, pushed>>

\* a progress line leaves the walk: fetch puts it on the queue, the hash
\* computation drops it
Emit(l) ==
    IF task.mode = "fetch"
    THEN queue' = queue \o <<ItemLine(l)>> /\ pushed' = pushed \o <<l>>
    ELSE UNCHANGED <<queue, pushed>>

\* _fetch_all reaches its next entry
Walk ==
    /\ caller.pc = "waiting"
    /\ task.pc = "walk"
    /\ task.pos <= Len(task.plan)
    /\ LET item == task.plan[task.pos] IN
       IF HasSeparator(item.name)
       THEN /\ Raise("ValueError: name cannot include path separators", files, dirs)
            /\ UNCHANGED <<pushed, stats>>
       ELSE IF item.kind = "folder"
       THEN /\ task' = [task EXCEPT !.pos = @ + 1]
            /\ stats' = Called
            /\ UNCHANGED <<files, dirs, queue, pushed>>
       ELSE IF exists(files, dirs, local_file_path(item))
       THEN /\ Emit(SkipLine(item))
            /\ task' = [task EXCEPT !.pos = @ + 1]
            /\ UNCHANGED <<files, dirs, stats>>
       ELSE IF ~isdir(dirs, local_dir_path(item)) /\ ~CanMakedirs(files, local_dir_path(item))
       THEN /\ Raise("FileExistsError", files, dirs)
            /\ UNCHANGED <<pushed, stats>>
       ELSE /\ dirs' = makedirs(dirs, local_dir_path(item))
            /\ files' = write_file(files, local_file_path(item), <<>>)
            /\ task' = [task EXCEPT !.pc = "writing"]
            /\ stats' = [Called EXCEPT !.downloads = @ + 1]
            /\ UNCHANGED <<queue, pushed>>
    /\ UNCHANGED <<remote, rdm, caller, delivered, prov, hist, clock, budget>>

\* file_.write_to(f) completes
WriteDone ==
    /\ caller.pc = "waiting"
    /\ task.pc = "writing"
    /\ LET item == task.plan[task.pos] IN
       /\ files' = write_file(files, local_file_path(item), item.content)
       /\ Emit(FetchLine(item))
    /\ task' = [task EXCEPT !.pc = "walk", !.pos = @ + 1]
    /\ UNCHANGED <<remote, dirs, rdm, caller, delivered, prov, stats, hist, clock, budget>>

\* file_.write_to(f) fails after some of the content was written
WriteFail ==
    /\ caller.pc = "waiting"
    /\ task.pc = "writing"
    /\ budget.failures > 0
    /\ budget' = [budget EXCEPT !.failures = @ - 1]
    /\ LET item == task.plan[task.pos] IN
       \E n \in 0..(Len(item.content) - 1) :
           Raise("TransportError",
                 write_file(files, local_file_path(item), SubStr(item.content, 1, n)), dirs)
    /\ stats' = [stats EXCEPT !.interrupted = @ + 1]
    /\ UNCHANGED <<remote, rdm, caller, pushed, delivered, prov, hist, clock>>

\* a call to the remote service fails
TaskFail ==
    /\ caller.pc = "waiting"
    /\ \/ task.pc \in {"project", "storage", "subpath", "folders", "storages", "copy", "link"}
       \/ task.pc = "walk" /\ task.pos <= Len(task.plan)
    /\ budget.failures > 0
    /\ budget' = [budget EXCEPT !.failures = @ - 1]
    /\ stats' = Called
    /\ Raise("TransportError", files, dirs)
    /\ UNCHANGED <<remote, rdm, caller, pushed, delivered, prov, hist, clock>>

\* a variant of HashDone that returns the digest and leaves the work directory
HashDoneNoCleanup ==
    /\ Running("hash")
    /\ task.pc = "walk"
    /\ task.pos > Len(task.plan)
    /\ queue' = queue \o <<ItemValue(compute_directory_hash(files, dirs, task.work_dir)),
                           ItemNone>>
    /\ stats' = [stats EXCEPT !.hashes = @ + 1]
    /\ task' = [task EXCEPT !.pc = "done", !.work_dir = None,
                            !.hash = compute_directory_hash(files, dirs, task.work_dir)]
    /\ UNCHANGED <<remote, files, dirs, rdm, caller, pushed, delivered, prov, hist, clock,
                   budget>>

\* _calculate_hash: the binder folder is downloaded; hash the work
\* directory, remove it (finally: shutil.rmtree, whose own exception takes
\* the place of the return), put the digest or the exception and then None
HashDone ==
    /\ Running("hash")
    /\ task.pc = "walk"
    /\ task.pos > Len(task.plan)
    /\ \E o \in RmtreeOutcomes :
        /\ queue' = queue \o
               <<IF o = "removed"
                 THEN ItemValue(compute_directory_hash(files, dirs, task.work_dir))
                 ELSE ItemError(RmtreeError),
                 ItemNone>>
        /\ files' = rmtree_outcome_files(files, task.work_dir, o)
        /\ dirs' = rmtree_outcome_dirs(dirs, task.work_dir, o)
        /\ task' = [task EXCEPT !.pc = "done", !.work_dir = None,
                                !.hash = compute_directory_hash(files, dirs, task.work_dir),
                                !.cleanup = o]
    /\ stats' = [stats EXCEPT !.hashes = @ + 1]
    /\ UNCHANGED <<remote, rdm, caller, pushed, delivered, prov, hist, clock, budget>>

\* the files of a remote folder: relative path and content of each
RECURSIVE FilesOf(_, _)
FilesOf(folder, rel) ==
    {[path |-> os_path_join(rel, folder.files[i].name), content |-> folder.files[i].content] :
        i \in 1..Len(folder.files)}
    \cup UNION {FilesOf(folder.folders[i], os_path_join(rel, folder.folders[i].name)) :
                   i \in 1..Len(folder.folders)}

\* detect: queue.get() returns
DetectResult ==
    /\ caller.pc = "waiting"
    /\ caller.op = "detect"
    /\ queue # <<>>
    /\ LET result == Head(queue)
           uuid == IF result.tag = "none" THEN uuid1(clock.uuid) ELSE result.value
           self == [rdm EXCEPT !.uuid = uuid]
       IN  IF result.tag = "error"
           THEN /\ caller' = [caller EXCEPT !.pc = "raised", !.error = result.error]
                /\ UNCHANGED <<rdm, hist, clock>>
           ELSE /\ rdm' = self
                /\ clock' = [clock EXCEPT !.uuid = IF result.tag = "none" THEN @ + 1 ELSE @]
                /\ caller' = [caller EXCEPT !.pc = "returned", !.result = "identity"]
                /\ hist' = [hist EXCEPT
                       !.identities =
                           @ \cup {[project_id |-> self.project_id, path |-> self.path,
                                    uuid |-> self.uuid, content_id |-> content_id(self)]},
                       !.uuids = Append(@, self.uuid),
                       !.hashed =
                           IF result.tag = "value"
                           THEN @ \cup {[remote |-> remote, path |-> self.path, uuid |-> uuid]}
                           ELSE @]
    /\ queue' = <<>>
    /\ task' = [NoTask EXCEPT !.raised = task.raised, !.hash = task.hash,
                              !.cleanup = task.cleanup]
    /\ UNCHANGED <<remote, files, dirs, pushed, delivered, prov, stats, budget>>

\* the project changes on the remote service between two operations
RemoteChange ==
    /\ Idle
    /\ budget.changes > 0
    /\ budget' = [budget EXCEPT !.changes = @ - 1]
    /\ \E r \in LocateRemotes \ {remote} : remote' = r
    /\ UNCHANGED <<files, dirs, rdm, caller, task, queue, pushed, delivered, prov, stats,
                   hist, clock>>

InitCommon ==
    /\ files = <<>>
    /\ dirs = {ROOT, OUTPUT_DIR, TMP}
    /\ rdm = [project_id |-> None, path |-> None, uuid |-> None]
    /\ caller = NoCaller
    /\ task = NoTask
    /\ queue = <<>>
    /\ pushed = <<>>
    /\ delivered = <<>>
    /\ prov = NewProvisioner
    /\ stats = NoStats
    /\ hist = [identities |-> {}, uuids |-> <<>>, hashed |-> {}, fetches |-> <<>>,
               digests |-> <<>>]
    /\ clock = [uuid |-> 1, tmp |-> 1]

InitLocate ==
    /\ InitCommon
    /\ remote \in LocateRemotes
    /\ budget = [locates |-> MaxLocates, fetches |-> 0, failures |-> MaxFailures,
                 changes |-> MaxRemoteChanges]

NextLocate ==
    \/ \E url \in Urls, ref \in Refs : detect(url, ref)
    \/ OsfProject
    \/ ProjectStorage
    \/ HashFolders
    \/ Walk
    \/ WriteDone
    \/ WriteFail
    \/ TaskFail
    \/ HashDone
    \/ DetectResult
    \/ RemoteChange

SpecLocate == InitLocate /\ [][NextLocate]_vars


----------------------------------------------------------------------------
(* fetch(): inputs.                                                        *)

M(type, source, target) == [type |-> type, source |-> source, target |-> target]
DataSource == <<PLACEHOLDER, SL, "data">>

\* mapping documents
Docs ==
    { [override |-> TRUE],
      [paths |-> <<>>],
      [override |-> TRUE, paths |-> <<M("copy", DataSource, <<DOT, SL, "dataset">>)>>],
      [paths |-> <<M("link", <<"gdrive">>, <<DOT>>)>>],
      [paths |-> <<M("link", <<"gdrive">>, <<DOT, SL>>)>>],
      [paths |-> <<M("link", <<SL, "gdrive", SL, "sub">>, <<DOT, SL, "ext">>)>>],
      [paths |-> <<M("copy", <<PLACEHOLDER, SL, "missing">>, <<DOT, SL, "m">>)>>],
      [override |-> TRUE, paths |-> <<M("copy", <<"nostore", SL, "x">>, <<DOT, SL, "m">>)>>],
      [paths |-> <<M("link", <<"gdrive", SL, "missing">>, <<DOT, SL, "ext">>)>>],
      [paths |-> <<M("link", <<"gdrive">>, <<DOT, SL, "ext">>),
                   M("copy", DataSource, <<DOT, SL, "dataset">>)>>],
      [paths |-> <<M("copy", DataSource, <<DOT, SL, "dataset">>),
                   M("link", <<"gdrive">>, <<DOT, SL>>)>>],
      [paths |-> <<M("move", DataSource, <<DOT, SL, "dataset">>)>>] }

\* a project whose storage holds a binder folder with these extra files
BinderProject(name, extra) ==
    Project(P, <<Folder(OSFSTORAGE, <<F1>>,
                        <<Folder(name, <<Env("a")>> \o extra, <<>>),
                          Folder(<<"data">>, <<F2>>, <<>>)>>),
                 Folder(<<"gdrive">>, <<>>, <<Sub>>)>>)

TwoStorages ==
    Project(P, <<Folder(OSFSTORAGE, <<F1>>, <<>>), Folder(<<"gdrive">>, <<>>, <<Sub>>)>>)
\* entries whose names hold a path separator
BadFolder ==
    Project(P, <<Folder(OSFSTORAGE, <<F1>>, <<Folder(<<"a", SL, "b">>, <<F2>>, <<>>)>>)>>)
BadFile ==
    Project(P, <<Folder(OSFSTORAGE, <<F2, File(<<"a", BSL, "b">>, <<Data("c")>>)>>, <<>>)>>)

FetchRemotes ==
    {Plain, TwoStorages, BadFolder, BadFile, BothBinders, BinderProject(<<"binder">>, <<>>),
     Project(P, <<Folder(OSFSTORAGE, <<F1>>, <<Folder(<<"..">>, <<F2>>, <<>>)>>)>>),
     Project(P, <<Folder(OSFSTORAGE, <<F1>>,
                         <<Folder(<<"sub">>, <<F2, File(<<"a", SL, "b">>, <<Data("c")>>)>>,
                                  <<>>)>>)>>),
     BinderProject(<<".binder">>, <<File(<<"provision.sh">>, <<Data("c")>>)>>)}
    \cup {BinderProject(<<"binder">>, <<File(<<"paths.yaml">>, <<Yaml(d)>>)>>) : d \in Docs}

API == <<"https:", SL, SL, "api.test.some.host.nii.ac.jp", SL, "v2">>
Spec_(path) == [project_id |-> P, path |-> path]
Specs == {Spec_(<<>>), Spec_(OSFSTORAGE), Spec_(<<"osfstorage", SL, "sub">>),
          Spec_(<<"osfstorage", SL, "nowhere">>)}

----------------------------------------------------------------------------
(* fetch(): the coroutine _fetch_with_error and the generator fetch.       *)

\* RDM.fetch is called and its generator started
fetch(spec) ==
    /\ Idle
    /\ budget.fetches > 0
    /\ budget' = [budget EXCEPT !.fetches = @ - 1]
    /\ caller' = [NoCaller EXCEPT !.pc = "waiting", !.op = "fetch"]
    /\ task' = [NoTask EXCEPT !.pc = "header", !.mode = "fetch", !.spec = spec,
                              !.output_dir = OUTPUT_DIR, !.run = Len(hist.fetches) + 1]
    /\ queue' = <<>>
    /\ pushed' = <<>>
    /\ delivered' = <<>>
    /\ stats' = NoStats
    /\ prov' = NewProvisioner
    /\ UNCHANGED <<remote, files, dirs, rdm, hist, clock>>

\* _fetch: the "Fetching RDM directory" line
FetchHeader ==
    /\ Running("fetch")
    /\ task.pc = "header"
    /\ Emit(Line("Fetching RDM directory", task.spec.path, task.spec.project_id, API))
    /\ task' = [task EXCEPT !.pc = "project"]
    /\ UNCHANGED <<remote, files, dirs, rdm, caller, delivered, prov, stats, hist, clock,
                   budget>>

\* _fetch: find_by_path(storage, the path below the storage)
FindByPath ==
    /\ Running("fetch")
    /\ task.pc = "subpath"
    /\ stats' = Called
    /\ LET found == find_by_path(task.node, AfterSlash(rstrip(task.spec.path, SL))) IN
       IF found = Missing
       THEN Raise("RuntimeError: Could not find path", files, dirs)
       ELSE IF found.kind = "file"
       THEN Raise("AttributeError", files, dirs)
       ELSE /\ task' = [task EXCEPT !.node = found.node, !.pc = "folders"]
            /\ UNCHANGED <<files, dirs, queue>>
    /\ UNCHANGED <<remote, rdm, caller, pushed, delivered, prov, hist, clock, budget>>

\* _fetch_binder: the local directory of each binder folder
BinderOutputDirs(node, output_dir) ==
    [i \in 1..Len(binder_folders(node)) |->
        os_path_join(output_dir, binder_folders(node)[i].name)]

\* a variant of _fetch_binder that walks the whole requested folder
FetchBinderPlan_whole_folder(node, output_dir, path) ==
    fetch_all(node, output_dir, None, RemotePath(path))

\* _fetch_binder: what the walk visits: the whole folder when it has no
\* binder folder, else the binder folders, each into its local directory
FetchBinderPlan(node, output_dir, path) ==
    IF binder_folders(node) = <<>>
    THEN fetch_all(node, output_dir, None, RemotePath(path))
    ELSE Concat([i \in 1..Len(binder_folders(node)) |->
                    fetch_all(binder_folders(node)[i], BinderOutputDirs(node, output_dir)[i],
                              None,
                              RemotePath(path) \o <<SL>> \o binder_folders(node)[i].name)])

\* os.makedirs(d, exist_ok=True) for each d
RECURSIVE MakeAll(_, _)
MakeAll(ds, ps) == IF ps = <<>> THEN ds ELSE MakeAll(makedirs(ds, Head(ps)), Tail(ps))

\* _fetch_binder: list the folders, create the binder directories
BinderFolders ==
    /\ Running("fetch")
    /\ task.pc = "folders"
    /\ stats' = Called
    /\ LET bods == BinderOutputDirs(task.node, task.output_dir) IN
       IF \E i \in 1..Len(bods) : ~CanMakedirs(files, bods[i])
       THEN Raise("FileExistsError", files, dirs)
       ELSE /\ dirs' = MakeAll(dirs, bods)
            /\ task' = [task EXCEPT
                           !.pc = "walk", !.pos = 1, !.binder_output_dirs = bods,
                           !.plan = FetchBinderPlan(task.node, task.output_dir,
                                                    rstrip(task.spec.path, SL))]
            /\ UNCHANGED <<files, queue>>
    /\ UNCHANGED <<remote, rdm, caller, pushed, delivered, prov, hist, clock, budget>>

\* _fetch without a path: every storage, each below its own name
StoragesPlan(project, output_dir) ==
    Concat([i \in 1..Len(project.storages) |->
               fetch_all(project.storages[i], output_dir, project.storages[i].name, <<>>)])

ListStorages ==
    /\ Running("fetch")
    /\ task.pc = "storages"
    /\ stats' = Called
    /\ task' = [task EXCEPT !.pc = "walk", !.pos = 1,
                            !.plan = StoragesPlan(remote, task.output_dir)]
    /\ UNCHANGED <<remote, files, dirs, rdm, caller, queue, pushed, delivered, prov, hist,
                   clock, budget>>

\* _fetch returns after a walk without binder folder; finally: put(None)
FetchAllDone ==
    /\ Running("fetch")
    /\ task.pc = "walk"
    /\ task.pos > Len(task.plan)
    /\ task.binder_output_dirs = <<>>
    /\ queue' = queue \o <<ItemNone>>
    /\ task' = [task EXCEPT !.pc = "done"]
    /\ UNCHANGED <<remote, files, dirs, rdm, caller, pushed, delivered, prov, stats, hist,
                   clock, budget>>

\* _fetch_binder: paths.yaml, then paths.yml, of each binder directory
RECURSIVE FirstExisting(_, _, _)
FirstExisting(fl, ds, candidates) ==
    IF candidates = <<>> THEN None
    ELSE IF exists(fl, ds, Head(candidates)) THEN Head(candidates)
    ELSE FirstExisting(fl, ds, Tail(candidates))
YamlCandidates(bods) ==
    Concat([i \in 1..Len(bods) |-> <<os_path_join(bods[i], <<"paths.yaml">>),
                                     os_path_join(bods[i], <<"paths.yml">>)>>])
\* the document _fetch_binder hands to PathsMapping
LoadedDocument(fl, ds, bods) ==
    LET y == FirstExisting(fl, ds, YamlCandidates(bods)) IN
    IF y = None THEN [paths |-> <<>>]
    ELSE IF y \in ds THEN [error |-> "IsADirectoryError"]
    ELSE yaml_load(fl[y])

AfterRules(copy, link, k, kind) ==
    IF kind = "copy" /\ k <= Len(copy) THEN "copy"
    ELSE IF kind = "copy" /\ link # <<>> THEN "link"
    ELSE IF kind = "link" /\ k <= Len(link) THEN "link"
    ELSE "save"

\* _fetch_binder: the binder folders are downloaded; load the mapping
\* document (or the default one) and build the PathsMapping
LoadPaths ==
    /\ Running("fetch")
    /\ task.pc = "walk"
    /\ task.pos > Len(task.plan)
    /\ task.binder_output_dirs # <<>>
    /\ LET doc == LoadedDocument(files, dirs, task.binder_output_dirs) IN
       IF "error" \in DOMAIN doc
       THEN Raise(doc.error, files, dirs) /\ UNCHANGED prov
       ELSE IF PathsMappingError(doc) # "ok"
       THEN Raise(PathsMappingError(doc), files, dirs) /\ UNCHANGED prov
       ELSE /\ task' = [task EXCEPT
                           !.copy = get_paths_to_copy(doc), !.link = get_paths_to_link(doc),
                           !.k = 1,
                           !.pc = AfterRules(get_paths_to_copy(doc), get_paths_to_link(doc),
                                             1, "copy")]
            /\ prov' = NewProvisioner
            /\ UNCHANGED <<files, dirs, queue>>
    /\ UNCHANGED <<remote, rdm, caller, pushed, delivered, stats, hist, clock, budget>>

DefaultStoragePath == strip(rstrip(task.spec.path, SL), SL)

\* _fetch_binder: the next copy rule: its "Mapping(Copy)" line, then
\* provisioner.add_copy_mapping
CopyMapping ==
    /\ Running("fetch")
    /\ task.pc = "copy"
    /\ LET m == task.copy[task.k]
           l == Line("Mapping(Copy)", get_source(m, DefaultStoragePath), get_target(m), <<>>)
           r == add_copy_mapping(remote, DefaultStoragePath, m)
       IN  /\ pushed' = pushed \o <<l>>
           /\ IF "error" \in DOMAIN r
              THEN /\ files' = files
                   /\ dirs' = dirs
                   /\ queue' = queue \o <<ItemLine(l), ItemError(r.error), ItemNone>>
                   /\ task' = [task EXCEPT !.pc = "done", !.raised = r.error]
                   /\ UNCHANGED prov
              ELSE /\ prov' = [prov EXCEPT !.copy = Append(@, r)]
                   /\ queue' = queue \o <<ItemLine(l)>>
                   /\ task' = [task EXCEPT
                                  !.k = IF task.k < Len(task.copy) THEN task.k + 1 ELSE 1,
                                  !.pc = IF task.k < Len(task.copy) THEN "copy"
                                         ELSE AfterRules(task.copy, task.link, 1, "link")]
                   /\ UNCHANGED <<files, dirs>>
    /\ stats' = Called
    /\ UNCHANGED <<remote, rdm, caller, delivered, hist, clock, budget>>

\* _fetch_binder: the next link rule: its "Mapping(Link)" line, then
\* provisioner.add_link_mapping
LinkMapping ==
    /\ Running("fetch")
    /\ task.pc = "link"
    /\ LET m == task.link[task.k]
           l == Line("Mapping(Link)", get_source(m, DefaultStoragePath), get_target(m), <<>>)
           r == add_link_mapping(remote, DefaultStoragePath, m)
       IN  /\ pushed' = pushed \o <<l>>
           /\ IF "error" \in DOMAIN r
              THEN /\ files' = files
                   /\ dirs' = dirs
                   /\ queue' = queue \o <<ItemLine(l), ItemError(r.error), ItemNone>>
                   /\ task' = [task EXCEPT !.pc = "done", !.raised = r.error]
                   /\ UNCHANGED prov
              ELSE /\ prov' = [prov EXCEPT !.link = Append(@, r)]
                   /\ queue' = queue \o <<ItemLine(l)>>
                   /\ task' = [task EXCEPT
                                  !.k = @ + 1,
                                  !.pc = AfterRules(task.copy, task.link, task.k + 1, "link")]
                   /\ UNCHANGED <<files, dirs>>
    /\ stats' = Called
    /\ UNCHANGED <<remote, rdm, caller, delivered, hist, clock, budget>>

\* provisioner.save_provision_script for each binder directory
RECURSIVE WriteScripts(_, _, _)
WriteScripts(fl, bods, text) ==
    IF bods = <<>> THEN fl
    ELSE WriteScripts(write_file(fl, os_path_join(Head(bods), <<"provision.sh">>), text),
                      Tail(bods), text)

\* _fetch_binder: write provision.sh; _fetch returns; finally: put(None)
SaveScripts ==
    /\ Running("fetch")
    /\ task.pc = "save"
    /\ files' = Apply(LAMBDA text : WriteScripts(files, task.binder_output_dirs, text),
                      provision_script(prov.copy, prov.link, DefaultStoragePath,
                                       MNT_RDM_DIR))
    /\ queue' = queue \o <<ItemNone>>
    /\ task' = [task EXCEPT !.pc = "done"]
    /\ UNCHANGED <<remote, dirs, rdm, caller, pushed, delivered, prov, stats, hist, clock,
                   budget>>

\* fetch: queue.get() returns: raise the error, stop at None, else yield
FetchResult ==
    /\ caller.pc = "waiting"
    /\ caller.op = "fetch"
    /\ queue # <<>>
    /\ LET result == Head(queue)
           outcome(o) == [spec |-> task.spec, outcome |-> o, error |-> result.error,
                          downloads |-> stats.downloads,
                          interrupted |-> stats.interrupted]
       IN  IF result.tag = "error"
           THEN /\ caller' = [caller EXCEPT !.pc = "raised", !.error = result.error]
                /\ hist' = [hist EXCEPT !.fetches = Append(@, outcome("raised"))]
                /\ queue' = <<>>
                /\ UNCHANGED delivered
           ELSE IF result.tag = "none"
           THEN /\ caller' = [caller EXCEPT !.pc = "ended"]
                /\ hist' = [hist EXCEPT !.fetches = Append(@, outcome("ended"))]
                /\ queue' = <<>>
                /\ UNCHANGED delivered
           ELSE /\ caller' = [caller EXCEPT !.pc = "holding"]
                /\ delivered' = Append(delivered, result.line)
                /\ queue' = Tail(queue)
                /\ UNCHANGED hist
    /\ UNCHANGED <<remote, files, dirs, rdm, task, pushed, prov, stats, clock, budget>>

\* the caller asks the generator for the next line
FetchNext ==
    /\ caller.pc = "holding"
    /\ caller' = [caller EXCEPT !.pc = "waiting"]
    /\ UNCHANGED <<remote, files, dirs, rdm, task, queue, pushed, delivered, prov, stats,
                   hist, clock, budget>>

Init ==
    /\ InitCommon
    /\ remote \in FetchRemotes
    /\ budget = [locates |-> 0, fetches |-> MaxFetches, failures |-> MaxFailures,
                 changes |-> 0]

Next ==
    \/ \E spec \in Specs : fetch(spec)
    \/ FetchHeader
    \/ OsfProject
    \/ ProjectStorage
    \/ FindByPath
    \/ BinderFolders
    \/ ListStorages
    \/ Walk
    \/ WriteDone
    \/ WriteFail
    \/ TaskFail
    \/ FetchAllDone
    \/ LoadPaths
    \/ CopyMapping
    \/ LinkMapping
    \/ SaveScripts
    \/ FetchResult
    \/ FetchNext

Spec == Init /\ [][Next]_vars

----------------------------------------------------------------------------
(* Claims about fetch().                                                   *)

IsPrefix(s, t) == Len(s) <= Len(t) /\ SubStr(t, 1, Len(s)) = s

\* the progress lines waiting on the queue, in queue order
RECURSIVE QueueLines(_)
QueueLines(q) ==
    IF q = <<>> THEN <<>>
    ELSE (IF Head(q).tag = "line" THEN <<Head(q).line>> ELSE <<>>) \o QueueLines(Tail(q))

Kinds(ls) == {ls[i].kind : i \in 1..Len(ls)}

\* C1: the caller of fetch receives the progress lines the coroutine pushed,
\* in push order, none lost, duplicated or reordered: what was delivered is
\* always a prefix of what was pushed, and while the generator runs the
\* delivered lines followed by the lines on the queue are the pushed lines;
\* when the stream ends at the end-marker every pushed line was delivered,
\* the "Fetching RDM directory" header first.
C1_DeliveredInPushOrder ==
    caller.op = "fetch" =>
        /\ IsPrefix(delivered, pushed)
        /\ caller.pc \in {"waiting", "holding"} => delivered \o QueueLines(queue) = pushed
        /\ caller.pc = "ended" =>
              /\ delivered = pushed
              /\ delivered # <<>>
              /\ delivered[1].kind = "Fetching RDM directory"
              /\ task.raised = ""

\* a fetch that ended after download, skip and mapping lines went through
C1_Witness ==
    /\ caller.op = "fetch"
    /\ caller.pc = "ended"
    /\ Len(delivered) >= 4
    /\ {"Skip", "Fetch", "Mapping(Copy)"} \subseteq Kinds(delivered)

\* the local path a "Fetch" line reports
LinePath(l) == os_path_join(l.c, l.b)

\* C2: when an error is raised inside the coroutine of fetch, the caller has
\* received every line pushed before it, the error raised in the caller is
\* the error raised in the coroutine, the coroutine pushes nothing after it,
\* and the files written so far stay: no step of a fetch removes a file, and
\* every file a delivered "Fetch" line reports is on disk.
C2_ErrorAfterPushedLines ==
    /\ [](caller.op = "fetch" =>
            /\ task.raised # "" => task.pc = "done"
            /\ caller.pc = "raised" =>
                  /\ delivered = pushed
                  /\ caller.error = task.raised
                  /\ QueueLines(queue) = <<>>
                  /\ \A i \in 1..Len(delivered) :
                        delivered[i].kind = "Fetch" => LinePath(delivered[i]) \in DOMAIN files)
    /\ [][/\ task.mode = "fetch" => DOMAIN files \subseteq DOMAIN files'
          /\ caller.op = "fetch" /\ caller.pc = "raised" /\ caller'.pc = "raised" =>
                delivered' = delivered /\ files' = files]_vars

\* a fetch raised after lines of downloaded files were delivered
C2_Witness ==
    /\ caller.op = "fetch"
    /\ caller.pc = "raised"
    /\ caller.error = "TransportError"
    /\ Len(delivered) >= 3
    /\ "Fetch" \in Kinds(delivered)

\* the walk of a fetch stands before a file whose local path exists
AtExistingFile ==
    /\ Running("fetch")
    /\ task.pc = "walk"
    /\ task.pos <= Len(task.plan)
    /\ task.plan[task.pos].kind = "file"
    /\ ~HasSeparator(task.plan[task.pos].name)
    /\ exists(files, dirs, local_file_path(task.plan[task.pos]))

\* the fetches made before the running one
LastFetch == hist.fetches[task.run - 1]
Rerun ==
    /\ caller.op = "fetch"
    /\ task.run > 1
    /\ LastFetch.outcome = "ended"
    /\ LastFetch.spec = task.spec

\* C3: when the walk of a fetch reaches a remote file whose local path
\* exists, it downloads nothing for it, leaves the local files unchanged and
\* emits one "Skip" line for it and no "Fetch" line; a fetch that follows a
\* completed fetch of the same identity downloads nothing.
C3_ExistingFileSkipped ==
    /\ [](Rerun => stats.downloads = 0)
    /\ [][AtExistingFile /\ task' # task =>
            /\ task'.pc # "writing"
            /\ files' = files
            /\ stats'.downloads = stats.downloads
            /\ task'.pos = task.pos + 1 =>
                  pushed' = pushed \o <<SkipLine(task.plan[task.pos])>>
            /\ task'.pos # task.pos + 1 => pushed' = pushed]_vars

\* a second fetch of the same identity ended, all of it skipped
C3_Witness ==
    /\ Rerun
    /\ caller.pc = "ended"
    /\ LastFetch.downloads >= 2
    /\ stats.downloads = 0
    /\ "Skip" \in Kinds(delivered)
    /\ "Fetch" \notin Kinds(delivered)

\* the files an uninterrupted walk of the plan leaves, starting from fl
RECURSIVE ApplyPlan(_, _)
ApplyPlan(fl, plan) ==
    IF plan = <<>> THEN fl
    ELSE LET item == Head(plan) IN
         ApplyPlan(IF item.kind = "file" /\ local_file_path(item) \notin DOMAIN fl
                   THEN write_file(fl, local_file_path(item), item.content) ELSE fl,
                   Tail(plan))

\* the files of output_dir after one uninterrupted fetch of the identity
\* into an empty directory (for an identity whose fetch completes)
CleanFetch(project, path) ==
    IF Len(path) = 0 THEN ApplyPlan(<<>>, StoragesPlan(project, OUTPUT_DIR))
    ELSE LET p == rstrip(path, SL)
             st == storage(project, BeforeSlash(p))
             node == IF Contains(p, SL) THEN find_by_path(st, AfterSlash(p)).node ELSE st
             bods == BinderOutputDirs(node, OUTPUT_DIR)
             fl == ApplyPlan(<<>>, FetchBinderPlan(node, OUTPUT_DIR, p))
             doc == LoadedDocument(fl, {}, bods)
             copy == get_paths_to_copy(doc)
             link == get_paths_to_link(doc)
         IN  IF bods = <<>> THEN fl
             ELSE WriteScripts(fl, bods,
                      provision_script(
                          [i \in 1..Len(copy) |-> add_copy_mapping(project, strip(p, SL), copy[i])],
                          [i \in 1..Len(link) |-> add_link_mapping(project, strip(p, SL), link[i])],
                          strip(p, SL), MNT_RDM_DIR))

\* a fetch ended that retried fetches of the same identity, each of which
\* had ended or failed with a transport error, one at least having failed
Retried ==
    /\ caller.op = "fetch"
    /\ caller.pc = "ended"
    /\ task.run > 1
    /\ \A i \in 1..(task.run - 1) :
          /\ hist.fetches[i].spec = task.spec
          /\ \/ hist.fetches[i].outcome = "ended"
             \/ hist.fetches[i].error = "TransportError"
    /\ \E i \in 1..(task.run - 1) : hist.fetches[i].error = "TransportError"

\* C4: a fetch that completes after a fetch of the same identity into the
\* same output_dir failed with a transport error leaves the files, and the
\* file contents, of one uninterrupted fetch into an empty directory.
C4_RetryIdempotent == Retried => files = CleanFetch(remote, task.spec.path)

\* the same, for failures that did not interrupt the download of a file
C4_RetryAfterFailedCall ==
    Retried /\ (\A i \in 1..(task.run - 1) : hist.fetches[i].interrupted = 0)
        => files = CleanFetch(remote, task.spec.path)

\* a retry after a failure between downloads left the files of a clean fetch
C4_RetryAfterFailedCallWitness ==
    /\ Retried
    /\ \A i \in 1..(task.run - 1) : hist.fetches[i].interrupted = 0
    /\ \E i \in 1..(task.run - 1) : hist.fetches[i].downloads > 0
    /\ stats.downloads > 0

\* the "/"-separated segments of a path
RECURSIVE Segments(_)
Segments(s) ==
    IF ~Contains(s, SL) THEN <<s>> ELSE <<BeforeSlash(s)>> \o Segments(AfterSlash(s))

\* the entries of a remote folder that a chain of segments leads to
RECURSIVE Reaches(_, _)
Reaches(node, segs) ==
    IF segs = <<>> THEN TRUE
    ELSE \/ \E i \in 1..Len(node.folders) :
               node.folders[i].name = Head(segs) /\ Reaches(node.folders[i], Tail(segs))
         \/ Len(segs) = 1 /\ \E i \in 1..Len(node.files) : node.files[i].name = Head(segs)

\* the storage area or a segment of the source of rule m is missing
SourceMissing(project, m) ==
    LET segs == Segments(get_source(m, DefaultStoragePath)) IN
    ~\E i \in 1..Len(project.storages) :
        project.storages[i].name = Head(segs) /\ Reaches(project.storages[i], Tail(segs))

\* the rules the fetch loaded hold one that must be rejected
HasRejectedRule ==
    \/ \E i \in 1..Len(task.link) : task.link[i].target \in {<<DOT>>, <<DOT, SL>>}
    \/ \E i \in 1..Len(task.copy) : SourceMissing(remote, task.copy[i])
    \/ \E i \in 1..Len(task.link) : SourceMissing(remote, task.link[i])

\* the provision scripts on disk
ProvisionScripts ==
    {p \in DOMAIN files : files[p] # <<>> /\ "script" \in DOMAIN files[p][1]}

\* C10: fetch writes provision.sh only when every copy rule and every link
\* rule was accepted and resolved; with a link rule that targets "." or
\* "./", or a rule whose source names a missing storage area or a missing
\* path segment, the fetch never reaches the script, does not end normally,
\* raises the rule's error (unless a remote call fails first) and leaves no
\* provision.sh it wrote.
C10_ScriptOnlyAfterAllRules ==
    caller.op = "fetch" =>
        /\ task.pc = "save" =>
              Len(prov.copy) = Len(task.copy) /\ Len(prov.link) = Len(task.link)
        /\ ProvisionScripts # {} => ~HasRejectedRule
        /\ HasRejectedRule =>
              /\ task.pc # "save"
              /\ caller.pc # "ended"
              /\ caller.pc = "raised" =>
                    caller.error \in {"Target path cannot be '.' for link mapping",
                                      "Could not find storage", "Could not find path",
                                      "TransportError"}

\* a fetch raised on a link rule to "." after a copy rule was accepted
C10_Witness ==
    /\ caller.op = "fetch"
    /\ caller.pc = "raised"
    /\ caller.error = "Target path cannot be '.' for link mapping"
    /\ HasRejectedRule
    /\ Len(prov.copy) >= 2
    /\ ProvisionScripts = {}

\* a fetch raised on a rule whose source is missing
C10_MissingSourceWitness ==
    /\ caller.op = "fetch"
    /\ caller.pc = "raised"
    /\ caller.error \in {"Could not find storage", "Could not find path"}
    /\ HasRejectedRule
    /\ ProvisionScripts = {}

\* a fetch wrote its provision script
C10_ScriptWitness == caller.op = "fetch" /\ caller.pc = "ended" /\ ProvisionScripts # {}

----------------------------------------------------------------------------
(* Claims about detect().                                                  *)

Detected == caller.op = "detect" /\ caller.url.host = KnownHost

\* C5: detect with an explicit reference (any reference but the absent one
\* and "HEAD") returns at once with that reference as the uuid; it makes no
\* call to the remote service, creates no work directory, computes no hash.
C5_ExplicitRefVerbatim ==
    (Detected /\ caller.ref \notin {None, HEAD}) =>
        /\ caller.pc = "returned"
        /\ caller.result = "identity"
        /\ rdm.uuid = caller.ref
        /\ ~stats.hashing
        /\ stats.remote_calls = 0
        /\ stats.mkdtemp = 0
        /\ stats.hashes = 0
        /\ task = NoTask

C5_Witness ==
    /\ Detected
    /\ caller.ref = <<"r">>
    /\ caller.pc = "returned"
    /\ rdm.uuid = <<"r">>
    /\ hist.hashed # {}

IsFreshOrDigest(uuid) ==
    \/ \E h \in hist.hashed : h.uuid = uuid
    \/ \E n \in 1..(clock.uuid - 1) : uuid = uuid1(n)

\* C6 as stated: an absent, an empty or a "HEAD" reference makes detect
\* enter hashing, and the uuid returned is never the reference.
C6_EmptyRefHashes ==
    (Detected /\ caller.ref \in {None, <<>>, HEAD}) =>
        /\ stats.hashing
        /\ caller.pc = "returned" => rdm.uuid # caller.ref

\* C6 as amended: detect enters hashing exactly for the absent reference and
\* for "HEAD" (the empty reference is explicit); the uuid it then returns is
\* a digest or a fresh id, never the reference.
C6_AbsentOrHeadHashes ==
    Detected =>
        /\ stats.hashing <=> caller.ref \in {None, HEAD}
        /\ (caller.pc = "returned" /\ caller.ref \in {None, HEAD}) =>
               rdm.uuid # caller.ref /\ IsFreshOrDigest(rdm.uuid)
        /\ (caller.pc = "returned" /\ caller.ref = <<>>) => rdm.uuid = <<>>

C6_Witness ==
    /\ Detected
    /\ caller.ref = HEAD
    /\ caller.pc = "returned"
    /\ stats.hashing
    /\ stats.hashes = 1
    /\ \E i \in 1..Len(hist.uuids) : hist.uuids[i] = <<>>

\* the project has no folder named "binder" or ".binder" anywhere
RECURSIVE NoBinderIn(_)
NoBinderIn(folder) ==
    \A i \in 1..Len(folder.folders) :
        folder.folders[i].name \notin BinderNames /\ NoBinderIn(folder.folders[i])
NoConfigurationFolder(project) ==
    \A i \in 1..Len(project.storages) : NoBinderIn(project.storages[i])

\* the URL names the project alone, or a storage of it, or a folder of one
UrlInProject(url, project) ==
    /\ project_id(url) = project.id
    /\ \/ project_path(url) = <<>>
       \/ /\ HasStorage(project, BeforeSlash(project_path(url)))
          /\ \/ ~Contains(project_path(url), SL)
             \/ find_by_path(storage(project, BeforeSlash(project_path(url))),
                             AfterSlash(project_path(url))) # Missing

\* C7: detect without a reference on a project that has no configuration
\* folder returns an identity, with a uuid no earlier call returned, whether
\* the URL names a storage, a folder of one, or the project alone.
C7_FreshUuidForEveryUrl ==
    (/\ Detected
     /\ caller.ref = None
     /\ caller.pc # "waiting"
     /\ budget.failures = MaxFailures
     /\ NoConfigurationFolder(remote)
     /\ UrlInProject(caller.url, remote)) =>
        /\ caller.pc = "returned"
        /\ \A i \in 1..(Len(hist.uuids) - 1) : hist.uuids[i] # rdm.uuid

\* the configuration folder of the storage the path names: "binder" when
\* there is one, else ".binder"
ConfigurationFiles(project, path) ==
    LET st == storage(project, BeforeSlash(path))
        named(n) == {i \in 1..Len(st.folders) : st.folders[i].name = n}
        pick(S) == st.folders[CHOOSE i \in S : \A j \in S : i <= j]
    IN  IF named(<<"binder">>) # {} THEN FilesOf(pick(named(<<"binder">>)), <<>>)
        ELSE FilesOf(pick(named(<<".binder">>)), <<>>)

\* C8: two project states with the same configuration folder (the same
\* relative paths and contents) get the same uuid from hashing, whatever
\* else differs between them.
C8_UuidDependsOnConfigurationOnly ==
    \A a, b \in hist.hashed :
        ConfigurationFiles(a.remote, a.path) = ConfigurationFiles(b.remote, b.path)
            => a.uuid = b.uuid

C8_Witness ==
    \E a, b \in hist.hashed :
        /\ a.remote = Binder1
        /\ b.remote = Binder1x
        /\ ConfigurationFiles(a.remote, a.path) = ConfigurationFiles(b.remote, b.path)
        /\ a.uuid = b.uuid

\* C9 as stated: identities that differ in project_id, path or uuid have
\* different content_ids.
C9_ContentIdIdentifiesAll ==
    \A a, b \in hist.identities :
        (a.project_id # b.project_id \/ a.path # b.path \/ a.uuid # b.uuid)
            => a.content_id # b.content_id

\* C9 as amended: the path is no part of content_id; identities that differ
\* in project_id or uuid have different content_ids when no project_id
\* holds a "-", and identities that differ in path alone share theirs.
C9_ContentIdIdentifiesProjectAndUuid ==
    \A a, b \in hist.identities :
        /\ (/\ a.project_id # b.project_id \/ a.uuid # b.uuid
            /\ ~Contains(a.project_id, DASH)
            /\ ~Contains(b.project_id, DASH)) => a.content_id # b.content_id
        /\ (a.project_id = b.project_id /\ a.uuid = b.uuid) => a.content_id = b.content_id

C9_Witness ==
    \E a, b \in hist.identities :
        /\ a.project_id = b.project_id
        /\ ~Contains(a.project_id, DASH)
        /\ a.path # b.path
        /\ a.uuid # b.uuid
        /\ a.content_id # b.content_id

\* with a "-" in a project_id two identities that differ in both fields can
\* share a content_id
C9_DashCollision ==
    \E a, b \in hist.identities :
        a.project_id # b.project_id /\ a.uuid # b.uuid /\ a.content_id = b.content_id

----------------------------------------------------------------------------
(* Claims about the files fetch() leaves.                                  *)

\* the remote files below the requested subtree, each with its path relative
\* to output_dir: below the requested folder, or (empty path) below every
\* storage, the storage name leading
RequestedFiles(project, path) ==
    IF Len(path) = 0
    THEN UNION {FilesOf(project.storages[i], project.storages[i].name) :
                   i \in 1..Len(project.storages)}
    ELSE LET p == rstrip(path, SL)
             st == storage(project, BeforeSlash(p))
         IN  FilesOf(IF Contains(p, SL) THEN find_by_path(st, AfterSlash(p)).node ELSE st,
                     <<>>)

\* the requested folder has a configuration folder
RequestedHasBinder(project, path) ==
    /\ Len(path) # 0
    /\ LET p == rstrip(path, SL)
           st == storage(project, BeforeSlash(p))
           node == IF Contains(p, SL) THEN find_by_path(st, AfterSlash(p)).node ELSE st
       IN  \E i \in 1..Len(node.folders) : node.folders[i].name \in BinderNames

LinesOfKind(ls, kind) == {i \in 1..Len(ls) : ls[i].kind = kind}

\* a first fetch, into the empty output_dir, of a subtree without
\* configuration folder has ended
PlainFetchEnded ==
    /\ caller.op = "fetch"
    /\ caller.pc = "ended"
    /\ task.run = 1
    /\ ~RequestedHasBinder(remote, task.spec.path)

\* C11: a completed fetch, into an empty output_dir, of a subtree without
\* configuration folder leaves every remote file of relative path p below
\* the subtree at output_dir/p with its content (with an empty path: the
\* files of storage S at output_dir/S/p), leaves nothing else, and its lines
\* hold exactly one "Fetch" line per file and no "Skip" line.
C11_PlainFetchMirrorsSubtree ==
    PlainFetchEnded =>
        LET want == RequestedFiles(remote, task.spec.path) IN
        /\ DOMAIN files = {os_path_join(OUTPUT_DIR, f.path) : f \in want}
        /\ \A f \in want : files[os_path_join(OUTPUT_DIR, f.path)] = f.content
        /\ \A f \in want :
              Cardinality({i \in LinesOfKind(delivered, "Fetch") :
                              delivered[i].b = f.path}) = 1
        /\ Cardinality(LinesOfKind(delivered, "Fetch")) = Cardinality(want)
        /\ LinesOfKind(delivered, "Skip") = {}

\* the fetch of a whole project, two storages, files in nested folders
C11_Witness ==
    /\ PlainFetchEnded
    /\ task.spec.path = <<>>
    /\ remote = TwoStorages
    /\ os_path_join(OUTPUT_DIR, <<"gdrive", SL, "sub", SL, "f2">>) \in DOMAIN files

\* the fetch of a sub-folder of a storage
C11_SubfolderWitness ==
    /\ PlainFetchEnded
    /\ task.spec.path = <<"osfstorage", SL, "sub">>
    /\ DOMAIN files = {os_path_join(OUTPUT_DIR, <<"f2">>)}

----------------------------------------------------------------------------
(* Mapping documents: every document of at most MaxRules entries goes      *)
(* through the fetch of a project whose binder folder holds it.            *)

MaxRules == 2

\* entries of a mapping document, well-formed and not
Entries ==
    { M("copy", DataSource, <<DOT, SL, "dataset">>),
      M("copy", <<"gdrive", SL, "sub">>, <<DOT>>),
      M("copy", <<PLACEHOLDER, SL, "f1">>, <<DOT, SL, "a", SL, "b">>),
      M("copy", DataSource, <<DOT, SL, "my dir", SL>>),
      M("copy", <<PLACEHOLDER, SL, "f1">>, <<DOT, SL, "specific-dir", SL>>),
      M("copy", DataSource, <<DOT, SL, "a", SL, "d">>),
      M("link", <<"gdrive">>, <<DOT, SL, "ext">>),
      M("link", <<"gdrive", SL, "sub">>, <<DOT, SL, "a", SL, "l">>),
      M("link", <<"gdrive">>, <<DOT>>),
      M("move", DataSource, <<DOT, SL, "dataset">>),
      M("copy", DataSource, <<SL, "etc">>),
      M("move", DataSource, <<SL, "etc">>),
      [source |-> DataSource, target |-> <<DOT, SL, "dataset">>],
      [source |-> DataSource, target |-> <<SL, "etc">>],
      [type |-> "copy", target |-> <<DOT, SL, "dataset">>],
      [type |-> "move", target |-> <<DOT, SL, "dataset">>],
      [type |-> "link", source |-> <<"gdrive">>],
      [type |-> "copy"] }

RuleLists == UNION {[1..n -> Entries] : n \in 0..MaxRules}

PathsDocs ==
    {[override |-> TRUE], [override |-> FALSE], [other |-> TRUE]}
    \cup {[paths |-> ps] : ps \in RuleLists}
    \cup {[override |-> o, paths |-> ps] : o \in BOOLEAN, ps \in RuleLists}

PathsRemotes ==
    {BinderProject(<<"binder">>, <<>>)}
    \cup {BinderProject(<<"binder">>, <<File(<<"paths.yaml">>, <<Yaml(d)>>)>>) : d \in PathsDocs}

InitPaths ==
    /\ InitCommon
    /\ remote \in PathsRemotes
    /\ budget = [locates |-> 0, fetches |-> 1, failures |-> 0, changes |-> 0]

NextPaths ==
    \/ fetch(Spec_(OSFSTORAGE))
    \/ FetchHeader
    \/ OsfProject
    \/ ProjectStorage
    \/ BinderFolders
    \/ Walk
    \/ WriteDone
    \/ LoadPaths
    \/ CopyMapping
    \/ LinkMapping
    \/ SaveScripts
    \/ FetchResult
    \/ FetchNext

SpecPaths == InitPaths /\ [][NextPaths]_vars

----------------------------------------------------------------------------
(* Claims about mapping documents.                                         *)

\* the mapping document of the remote configuration folder, Missing when
\* the folder holds none
RemoteDocument ==
    LET fs == remote.storages[1].folders[1].files
        at == {i \in 1..Len(fs) : fs[i].name = <<"paths.yaml">>}
    IN  IF at = {} THEN Missing ELSE fs[CHOOSE i \in at : TRUE].content[1].yaml

\* the elements of a set of numbers, ascending
RECURSIVE Ascending(_)
Ascending(S) ==
    IF S = {} THEN <<>>
    ELSE LET m == CHOOSE x \in S : \A y \in S : x <= y IN <<m>> \o Ascending(S \ {m})

\* the entries of the document that declare the type, in document order
Declared(doc, type) ==
    LET at == Ascending({i \in 1..Len(doc.paths) : doc.paths[i].type = type})
    IN  [k \in 1..Len(at) |-> doc.paths[at[k]]]

DefaultCopyRule == M("copy", <<PLACEHOLDER>>, <<DOT>>)

\* the fetch has built its PathsMapping
PathsLoaded ==
    /\ caller.op = "fetch"
    /\ task.binder_output_dirs # <<>>
    /\ task.pc \in {"copy", "link", "save"}

\* C12: the copy rules of a PathsMapping are the default rule
\* {copy, $default_storage_path, "."} followed by the declared copy rules in
\* document order when override is false or absent, the declared copy rules
\* alone when override is true; the link rules are the declared link rules;
\* without mapping document fetch gets the default copy rule and no link.
C12_CopyAndLinkRules ==
    PathsLoaded =>
        IF RemoteDocument = Missing
        THEN task.copy = <<DefaultCopyRule>> /\ task.link = <<>>
        ELSE LET doc == RemoteDocument
                 overridden == "override" \in DOMAIN doc /\ doc.override
             IN  /\ task.copy = (IF overridden THEN <<>> ELSE <<DefaultCopyRule>>)
                                    \o Declared(doc, "copy")
                 /\ task.link = Declared(doc, "link")

\* a link rule declared before a copy rule, override false
C12_Witness ==
    /\ PathsLoaded
    /\ RemoteDocument # Missing
    /\ "override" \in DOMAIN RemoteDocument
    /\ RemoteDocument.override = FALSE
    /\ Len(RemoteDocument.paths) = 2
    /\ RemoteDocument.paths[1].type = "link"
    /\ task.copy = <<DefaultCopyRule, RemoteDocument.paths[2]>>
    /\ task.link = <<RemoteDocument.paths[1]>>

\* two copy rules declared, override true
C12_OverrideWitness ==
    /\ PathsLoaded
    /\ RemoteDocument # Missing
    /\ "override" \in DOMAIN RemoteDocument
    /\ RemoteDocument.override
    /\ Len(task.copy) = 2
    /\ task.copy[1] # task.copy[2]
    /\ task.copy = RemoteDocument.paths

\* no mapping document
C12_DefaultWitness ==
    PathsLoaded /\ RemoteDocument = Missing /\ task.copy = <<DefaultCopyRule>>

\* an entry has kind, source and target, a kind of copy or link, and a
\* target that is "." or starts with "./"
WellFormedEntry(m) ==
    /\ {"type", "source", "target"} \subseteq DOMAIN m
    /\ m.type \in {"copy", "link"}
    /\ m.target = <<DOT>> \/ (Len(m.target) >= 2 /\ m.target[1] = DOT /\ m.target[2] = SL)

WellFormed(doc) ==
    /\ "paths" \in DOMAIN doc
    /\ \A i \in 1..Len(doc.paths) : WellFormedEntry(doc.paths[i])

\* the error of the first check an entry violates, the checks in the order:
\* kind present, kind valid, source present, target present, target relative
FirstViolatedCheck(m) ==
    CASE "type" \notin DOMAIN m -> "No type key in mapping."
      [] "type" \in DOMAIN m /\ m.type \notin {"copy", "link"} -> "Invalid type in mapping"
      [] "type" \in DOMAIN m /\ m.type \in {"copy", "link"} /\ "source" \notin DOMAIN m ->
            "No source key in mapping."
      [] {"type", "source"} \subseteq DOMAIN m /\ m.type \in {"copy", "link"}
            /\ "target" \notin DOMAIN m -> "No target key in mapping."
      [] OTHER -> "Target path must be relative to the output directory"

\* the validation error of a document that is not well-formed: that of the
\* missing list, else that of its first entry that is not well-formed
ValidationError(doc) ==
    IF "paths" \notin DOMAIN doc THEN "No paths key in mapping."
    ELSE LET bad == Ascending({i \in 1..Len(doc.paths) : ~WellFormedEntry(doc.paths[i])})
         IN  FirstViolatedCheck(doc.paths[bad[1]])

\* the fetch has downloaded its binder folder and is about to parse
AboutToParse ==
    /\ Running("fetch")
    /\ task.pc = "walk"
    /\ task.pos > Len(task.plan)
    /\ task.binder_output_dirs # <<>>
    /\ RemoteDocument # Missing

C13_TargetWitness ==
    /\ caller.op = "fetch"
    /\ caller.pc = "raised"
    /\ RemoteDocument # Missing
    /\ "paths" \in DOMAIN RemoteDocument
    /\ RemoteDocument.paths = <<M("copy", DataSource, <<SL, "etc">>)>>
    /\ caller.error = "Target path must be relative to the output directory"

\* a well-formed document of two entries parsed
C13_ParsedWitness ==
    /\ PathsLoaded
    /\ RemoteDocument # Missing
    /\ WellFormed(RemoteDocument)
    /\ Len(RemoteDocument.paths) = 2

----------------------------------------------------------------------------
(* Claims about the provision script.                                      *)

\* the fetch has written its provision script
ScriptWritten ==
    /\ caller.op = "fetch"
    /\ task.binder_output_dirs # <<>>
    /\ task.pc = "done"
    /\ task.raised = ""

TheScript == files[os_path_join(task.binder_output_dirs[1], <<"provision.sh">>)]

\* the copy rules of the plan whose source resolved to a directory
DirectoryCopies == {i \in 1..Len(prov.copy) : prov.copy[i].source = "folder"}

\* the source of copy rule i below the mount root, the placeholder
\* substituted, and its target, trailing slashes trimmed
MountedSource(i) ==
    os_path_join(MNT_RDM_DIR, strip(replace(task.copy[i].source, PLACEHOLDER,
                                            DefaultStoragePath), SL))
TrimmedTarget(i) == rstrip(task.copy[i].target, SL)

\* a path as a POSIX shell word: itself when all its characters are safe,
\* else in single quotes
ShellWord(path) ==
    IF \E i \in 1..Len(path) : path[i] \in {"my dir", " ", "*", BSL, PLACEHOLDER}
    THEN <<"'">> \o path \o <<"'">> ELSE path

IsMkdir(line) == line.script[1] = "mkdir -p "

\* the script holds "cp -fr src/* ." and no mkdir line before it
CopiesHere(script, src) ==
    \E k \in 2..Len(script) :
        /\ script[k] = [script |-> <<"cp -fr ">> \o src \o <<SL, "*", " ", DOT>>]
        /\ ~IsMkdir(script[k - 1])

\* the script holds "mkdir -p tgt/" and right after it "cp -fr src/* tgt/"
CopiesInto(script, src, tgt) ==
    \E k \in 1..(Len(script) - 1) :
        /\ script[k] = [script |-> <<"mkdir -p ">> \o tgt]
        /\ script[k + 1] = [script |-> <<"cp -fr ">> \o src \o <<"*", " ">> \o tgt]

\* C14 with the paths taken letter by letter: for every copy rule whose source
\* is a directory the script holds "mkdir -p T/" followed at once by
\* "cp -fr M/S/* T/", and for target "." the line "cp -fr M/S/* ." without
\* mkdir line.
C14_CopyLinesVerbatim ==
    ScriptWritten =>
        \A i \in DirectoryCopies :
            IF TrimmedTarget(i) = <<DOT>>
            THEN CopiesHere(TheScript, MountedSource(i))
            ELSE CopiesInto(TheScript, MountedSource(i) \o <<SL>>, TrimmedTarget(i) \o <<SL>>)

\* C14: for every copy rule whose source is a directory and whose target,
\* trailing slashes trimmed, is T # ".", the script holds the line
\* "mkdir -p T/" followed at once by "cp -fr M/S/* T/", the paths M/S/ and T/
\* each written as a shell word (in single quotes when a character of it is
\* not safe); for T = "." it holds "cp -fr M/S/* ." without mkdir line.
C14_CopyLinesQuoted ==
    ScriptWritten =>
        \A i \in DirectoryCopies :
            IF TrimmedTarget(i) = <<DOT>>
            THEN CopiesHere(TheScript, ShellWord(MountedSource(i)))
            ELSE CopiesInto(TheScript, ShellWord(MountedSource(i) \o <<SL>>),
                            ShellWord(TrimmedTarget(i) \o <<SL>>))

\* the script of {copy, $default_storage_path/data, "./dataset"} and of a
\* target that needs quotes
C14_Witness ==
    /\ ScriptWritten
    /\ task.copy = <<M("copy", DataSource, <<DOT, SL, "dataset">>),
                     M("copy", DataSource, <<DOT, SL, "my dir", SL>>)>>
    /\ TheScript =
          << [script |-> <<"#!/bin/bash">>],
             [script |-> <<"set -xe">>],
             [script |-> <<"mkdir -p ", DOT, SL, "dataset", SL>>],
             [script |-> <<"cp -fr ", SL, "mnt", SL, "rdm", SL, "osfstorage", SL, "data", SL,
                           "*", " ", DOT, SL, "dataset", SL>>],
             [script |-> <<"mkdir -p ", "'", DOT, SL, "my dir", SL, "'">>],
             [script |-> <<"cp -fr ", SL, "mnt", SL, "rdm", SL, "osfstorage", SL, "data", SL,
                           "*", " ", "'", DOT, SL, "my dir", SL, "'">>] >>

\* the script of the default rule alone
C14_DefaultWitness ==
    /\ ScriptWritten
    /\ task.copy = <<DefaultCopyRule>>
    /\ task.link = <<>>
    /\ TheScript =
          << [script |-> <<"#!/bin/bash">>],
             [script |-> <<"set -xe">>],
             [script |-> <<"cp -fr ", SL, "mnt", SL, "rdm", SL, "osfstorage", SL, "*", " ",
                           DOT>>] >>

----------------------------------------------------------------------------
(* The directory hasher on its own: two local directories are edited and   *)
(* hashed, the walk listing the entries in any order.                      *)

MaxEdits == 1

D1 == mkdtemp(1)
D2 == mkdtemp(2)

\* directory trees: the content of each file by relative path, and the
\* relative paths of the sub-directories
Tree(fs, ds) == [files |-> fs, dirs |-> ds]
Trees ==
    { Tree(<<>>, {}),
      Tree((<<"env">> :> <<Data("a")>>), {}),
      Tree((<<"env">> :> <<Data("a")>>) @@ (<<"sub", SL, "f2">> :> <<Data("c")>>),
           {<<"sub">>}),
      Tree((<<"f1">> :> <<Data("a"), Data("b")>>) @@ (<<"f2">> :> <<Data("c")>>), {}),
      Tree((<<"data", SL, "f1">> :> <<Data("a")>>) @@ (<<"sub", SL, "f2">> :> <<Data("c")>>),
           {<<"data">>, <<"sub">>}),
      Tree((<<"env">> :> <<Data("CONTENT:"), Data("sub"), Data("\n")>>), {<<"sub">>}),
      Tree((<<"env">> :> <<>>) @@ (<<"sub">> :> <<>>), {}) }

Bytes == {"a", "b"}
NewDirNames == {<<"data">>, <<"sub">>}

PlacedFiles(t, d) == {os_path_join(d, r) : r \in DOMAIN t.files}
PlacedDirs(t, d) == {d} \cup {os_path_join(d, r) : r \in t.dirs}

InitHash ==
    /\ remote = Plain
    /\ \E t1, t2 \in Trees :
          /\ files = [p \in PlacedFiles(t1, D1) \cup PlacedFiles(t2, D2) |->
                         IF p \in PlacedFiles(t1, D1) THEN t1.files[relpath(p, D1)]
                         ELSE t2.files[relpath(p, D2)]]
          /\ dirs = {ROOT, TMP} \cup PlacedDirs(t1, D1) \cup PlacedDirs(t2, D2)
    /\ rdm = [project_id |-> None, path |-> None, uuid |-> None]
    /\ caller = NoCaller
    /\ task = NoTask
    /\ queue = <<>>
    /\ pushed = <<>>
    /\ delivered = <<>>
    /\ prov = NewProvisioner
    /\ stats = NoStats
    /\ hist = [identities |-> {}, uuids |-> <<>>, hashed |-> {}, fetches |-> <<>>,
               digests |-> <<>>]
    /\ clock = [uuid |-> 1, tmp |-> 3]
    /\ budget = [locates |-> 0, fetches |-> 0, failures |-> 0, changes |-> 0,
                 edits |-> MaxEdits]

\* the orders os.walk may come by the sub-directories of a directory in
RECURSIVE Listings(_)
Listings(S) ==
    IF S = {} THEN {<<>>}
    ELSE UNION {{<<x>> \o l : l \in Listings(S \ {x})} : x \in S}

\* the entries of the walk of path that lie in the directory root, and the
\* sub-directories of root
Names(fl, ds, root, path) ==
    {e \in WalkEntries(fl, ds, path) :
        /\ Below(os_path_join(path, e), root)
        /\ Len(os_path_join(path, e)) = Len(root) + 2}
ChildDirs(ds, root) == {q \in ds : Below(q, root) /\ Len(q) = Len(root) + 2}

\* the lists all_paths the loop over os.walk(path) can build from root on:
\* sorted(dirs + files) of root, then the same for each sub-directory
RECURSIVE Walks(_, _, _, _)
RECURSIVE WalksOf(_, _, _, _)
Walks(fl, ds, root, path) ==
    {sorted(Names(fl, ds, root, path)) \o below :
        below \in UNION {WalksOf(fl, ds, order, path) :
                            order \in Listings(ChildDirs(ds, root))}}
WalksOf(fl, ds, order, path) ==
    IF order = <<>> THEN {<<>>}
    ELSE {a \o b : a \in Walks(fl, ds, Head(order), path),
                   b \in WalksOf(fl, ds, Tail(order), path)}

\* what a directory holds: its sub-directories and the content of its files,
\* by relative path
Subdirs(d) == {relpath(q, d) : q \in {x \in dirs : Below(x, d)}}
Contents(d) ==
    [r \in {relpath(q, d) : q \in {x \in DOMAIN files : Below(x, d)}} |->
        files[os_path_join(d, r)]]

\* compute_directory_hash(d), os.walk taking the sub-directories in some order;
\* the last two results are kept
ComputeDirectoryHash(d) ==
    /\ \E all_paths \in Walks(files, dirs, d, d) :
          LET feed == HashFeedOf(all_paths, files, d)
              result == [dir |-> d, subdirs |-> Subdirs(d), contents |-> Contents(d),
                         walked |-> all_paths,
                         feed |-> feed, digest |-> hexdigest(feed)]
          IN  hist' = [hist EXCEPT !.digests =
                          IF Len(@) < 2 THEN Append(@, result) ELSE <<@[2], result>>]
    /\ UNCHANGED <<remote, files, dirs, rdm, caller, task, queue, pushed, delivered, prov,
                   stats, clock, budget>>

\* an empty sub-directory is made somewhere in d
MakeEmptyDir(d) ==
    /\ budget.edits > 0
    /\ budget' = [budget EXCEPT !.edits = @ - 1]
    /\ \E parent \in {d} \cup {x \in dirs : Below(x, d)}, name \in NewDirNames :
          /\ ~exists(files, dirs, os_path_join(parent, name))
          /\ dirs' = dirs \cup {os_path_join(parent, name)}
    /\ UNCHANGED <<remote, files, rdm, caller, task, queue, pushed, delivered, prov, stats,
                   hist, clock>>

\* one byte of one file changes
ChangeByte ==
    /\ budget.edits > 0
    /\ budget' = [budget EXCEPT !.edits = @ - 1]
    /\ \E p \in DOMAIN files :
          \E k \in 1..Len(files[p]), c \in Bytes :
              /\ files[p][k] # Data(c)
              /\ files' = [files EXCEPT ![p] = [@ EXCEPT ![k] = Data(c)]]
    /\ UNCHANGED <<remote, dirs, rdm, caller, task, queue, pushed, delivered, prov, stats,
                   hist, clock>>

NextHash ==
    \/ \E d \in {D1, D2} : ComputeDirectoryHash(d)
    \/ \E d \in {D1, D2} : MakeEmptyDir(d)
    \/ ChangeByte

SpecHash == InitHash /\ [][NextHash]_vars

----------------------------------------------------------------------------
(* Claims about the directory hasher.                                      *)

SameTree(a, b) == a.subdirs = b.subdirs /\ a.contents = b.contents

\* C15: two directories with the same relative paths, of files and of
\* sub-directories, and the same file contents get the same digest, whatever
\* the order the walk took the sub-directories in; and so does one directory
\* hashed twice without a change between.
C15_DigestOfPathsAndContents ==
    \A i, j \in 1..Len(hist.digests) :
        SameTree(hist.digests[i], hist.digests[j])
            => hist.digests[i].digest = hist.digests[j].digest

\* two different directories, two sub-directories with a file in each, walked
\* in different orders
C15_Witness ==
    /\ Len(hist.digests) = 2
    /\ hist.digests[1].dir # hist.digests[2].dir
    /\ SameTree(hist.digests[1], hist.digests[2])
    /\ hist.digests[1].subdirs # {}
    /\ Cardinality(DOMAIN hist.digests[1].contents) >= 2
    /\ hist.digests[1].walked # hist.digests[2].walked
    /\ hist.digests[1].digest = hist.digests[2].digest

\* one directory hashed twice
C15_TwiceWitness ==
    /\ Len(hist.digests) = 2
    /\ hist.digests[1].dir = hist.digests[2].dir
    /\ SameTree(hist.digests[1], hist.digests[2])
    /\ DOMAIN hist.digests[1].contents # {}
    /\ hist.digests[1].digest = hist.digests[2].digest

\* b is a with one more sub-directory, which is empty
AddsEmptyDir(a, b, r) ==
    /\ r \notin a.subdirs
    /\ b.subdirs = a.subdirs \cup {r}
    /\ b.contents = a.contents
    /\ \A f \in DOMAIN b.contents : ~StartsWith(f, r \o <<SL>>)

\* b is a with one byte of one file changed
ChangesOneByte(a, b) ==
    /\ a.subdirs = b.subdirs
    /\ DOMAIN a.contents = DOMAIN b.contents
    /\ \E f \in DOMAIN a.contents :
          /\ \A g \in DOMAIN a.contents \ {f} : a.contents[g] = b.contents[g]
          /\ Len(a.contents[f]) = Len(b.contents[f])
          /\ Cardinality({k \in 1..Len(a.contents[f]) :
                             a.contents[f][k] # b.contents[f][k]}) = 1

HasPathRecord(feed, r) == \E k \in 1..Len(feed) : feed[k].rec = "PATH" /\ feed[k].path = r

\* C16: a directory with one more, empty, sub-directory has one more PATH
\* record in what is fed to the hash function, a directory with one byte of
\* one file changed has another content byte in it; the feed differs, and
\* so does the digest.
C16_EmptyDirAndByteChangeDigest ==
    \A i, j \in 1..Len(hist.digests) :
        LET a == hist.digests[i]
            b == hist.digests[j]
        IN  /\ \A r \in b.subdirs :
                  AddsEmptyDir(a, b, r) =>
                      /\ HasPathRecord(b.feed, r)
                      /\ ~HasPathRecord(a.feed, r)
                      /\ Len(b.feed) = Len(a.feed) + 1
                      /\ a.digest # b.digest
            /\ ChangesOneByte(a, b) =>
                  /\ Len(a.feed) = Len(b.feed)
                  /\ Cardinality({k \in 1..Len(a.feed) : a.feed[k] # b.feed[k]}) = 1
                  /\ a.digest # b.digest

\* a directory hashed, an empty sub-directory made in it, hashed again
C16_Witness ==
    /\ Len(hist.digests) = 2
    /\ hist.digests[1].dir = hist.digests[2].dir
    /\ \E r \in hist.digests[2].subdirs : AddsEmptyDir(hist.digests[1], hist.digests[2], r)
    /\ DOMAIN hist.digests[1].contents # {}
    /\ hist.digests[1].digest # hist.digests[2].digest

\* a directory hashed, a byte of one of its files changed, hashed again
C16_ByteWitness ==
    /\ Len(hist.digests) = 2
    /\ hist.digests[1].dir = hist.digests[2].dir
    /\ ChangesOneByte(hist.digests[1], hist.digests[2])
    /\ hist.digests[1].digest # hist.digests[2].digest

----------------------------------------------------------------------------
(* The URL parser on its own: detect() with an explicit reference, on      *)
(* every URL path of at most MaxSegments segments.                         *)

MaxSegments == 5

Segment == {<<>>, <<"p">>, <<"files">>, <<"dir">>, <<"x">>}

\* the URL path "/s1/s2/.../sn"
PathOf(segs) == Concat([i \in 1..Len(segs) |-> <<SL>> \o segs[i]])

ParserUrls ==
    {Url(KnownHost, PathOf(segs)) : segs \in UNION {[1..n -> Segment] : n \in 0..MaxSegments}}

InitUrl ==
    /\ InitCommon
    /\ remote = Plain
    /\ budget = [locates |-> 1, fetches |-> 0, failures |-> 0, changes |-> 0]

NextUrl == \E url \in ParserUrls : detect(url, <<"r">>)

SpecUrl == InitUrl /\ [][NextUrl]_vars

----------------------------------------------------------------------------
(* Claims about the URL parser.                                            *)

\* the URL path without its leading slashes, its first segment, and what
\* follows the slash after the first segment
RECURSIVE Unrooted(_)
Unrooted(path) == IF path # <<>> /\ path[1] = SL THEN Unrooted(Tail(path)) ELSE path
FirstSegment(path) ==
    LET p == Unrooted(path)
        at == {i \in 1..Len(p) : p[i] = SL}
    IN  IF at = {} THEN p ELSE SubStr(p, 1, (CHOOSE i \in at : \A j \in at : i <= j) - 1)
AfterFirstSegment(path) ==
    LET p == Unrooted(path)
        at == {i \in 1..Len(p) : p[i] = SL}
    IN  IF at = {} THEN <<>> ELSE From(p, (CHOOSE i \in at : \A j \in at : i <= j) + 1)

\* s without the marker in front of it, s itself when it does not start so
WithoutMarker(s, marker) ==
    IF Len(s) >= Len(marker) /\ SubStr(s, 1, Len(marker)) = marker
    THEN From(s, Len(marker) + 1) ELSE s

\* s without leading and trailing slashes
Trimmed(s) ==
    LET keep == {i \in 1..Len(s) : s[i] # SL} IN
    IF keep = {} THEN <<>>
    ELSE SubStr(s, CHOOSE i \in keep : \A j \in keep : i <= j,
                CHOOSE i \in keep : \A j \in keep : j <= i)

Parsed == caller.op = "detect" /\ caller.pc = "returned" /\ caller.result = "identity"

C17_DirWitness ==
    /\ Parsed
    /\ caller.url.path = <<SL, "p", SL, "dir", SL, "x">>
    /\ rdm.path = <<"dir", SL, "x">>

\* "/p/files/dir/files/x": the second "files/" stays
C17_OrderWitness ==
    /\ Parsed
    /\ caller.url.path = <<SL, "p", SL, "files", SL, "dir", SL, "files", SL, "x">>
    /\ rdm.path = <<"files", SL, "x">>

----------------------------------------------------------------------------
(* detect() and fetch() under the scheduling of the event loop: while the  *)
(* caller waits in run_until_complete the coroutine is run, every remote   *)
(* call returns or fails, and the caller of fetch keeps asking for lines.  *)

MaxCalls == 1

\* projects with and without binder folders, with an entry that stops the
\* walk, and with mapping documents of two rules and without rules
LiveRemotes ==
    LocateRemotes \cup {TwoStorages, BadFolder, BinderProject(<<"binder">>, <<>>)}
    \cup {BinderProject(<<"binder">>, <<File(<<"paths.yaml">>, <<Yaml(d)>>)>>) :
             d \in {x \in Docs : "paths" \in DOMAIN x => Len(x.paths) = 2}}

InitLive ==
    /\ InitCommon
    /\ remote \in LiveRemotes
    /\ budget \in {[locates |-> MaxCalls, fetches |-> 0, failures |-> MaxFailures,
                    changes |-> 0],
                   [locates |-> 0, fetches |-> MaxCalls, failures |-> MaxFailures,
                    changes |-> 0]}

\* the steps of the coroutine and of the waiting caller
Progress ==
    \/ FetchHeader
    \/ OsfProject
    \/ ProjectStorage
    \/ FindByPath
    \/ BinderFolders
    \/ ListStorages
    \/ HashFolders
    \/ Walk
    \/ WriteDone
    \/ FetchAllDone
    \/ HashDone
    \/ LoadPaths
    \/ CopyMapping
    \/ LinkMapping
    \/ SaveScripts
    \/ FetchResult
    \/ DetectResult
    \/ FetchNext

NextLive ==
    \/ \E url \in Urls, ref \in Refs : detect(url, ref)
    \/ \E spec \in Specs : fetch(spec)
    \/ WriteFail
    \/ TaskFail
    \/ Progress

SpecLive == InitLive /\ [][NextLive]_vars /\ WF_vars(Progress)

----------------------------------------------------------------------------
(* Claims about termination.                                               *)

InFlight == caller.pc \in {"waiting", "holding"}

\* C18: every call of fetch and of detect ends: the caller of fetch gets the
\* end-marker or an error, detect returns or raises; and the caller is never
\* left waiting on an empty queue with the coroutine gone.
C18_CallsEnd ==
    /\ [](caller.pc = "waiting" /\ queue = <<>> => task.pc \notin {"none", "done"})
    /\ (InFlight ~> caller.pc \in {"ended", "returned", "raised"})

\* a fetch that went through the mapping rules ended at the end-marker
C18_Witness ==
    /\ caller.op = "fetch"
    /\ caller.pc = "ended"
    /\ task.link # <<>>
    /\ queue = <<>>

\* a detect that hashed returned; a detect whose coroutine failed raised
C18_DetectWitness == caller.op = "detect" /\ caller.pc = "returned" /\ stats.hashes = 1
C18_RaisedWitness == caller.op = "detect" /\ caller.pc = "raised" /\ queue = <<>>

----------------------------------------------------------------------------
(* Claims about the work directory of detect().                            *)

\* the work directories the current call of detect made
ScratchDirs == {mkdtemp(n) : n \in (clock.tmp - stats.mkdtemp)..(clock.tmp - 1)}
Present(d) == d \in dirs \/ \E p \in DOMAIN files : Below(p, d)

\* the digest or the exception of detect is on its way to the caller, or
\* the caller has it
Settled ==
    /\ caller.op = "detect"
    /\ \/ caller.pc \in {"returned", "raised"}
       \/ caller.pc = "waiting" /\ queue # <<>>

\* what is on its way, or what the caller got, is the exception of rmtree
RemovalFailed ==
    \/ caller.pc = "raised" /\ caller.error = RmtreeError
    \/ caller.pc = "waiting" /\ queue # <<>> /\ Head(queue).error = RmtreeError

C19_FailureWitness ==
    /\ caller.op = "detect"
    /\ caller.pc = "raised"
    /\ caller.error = "TransportError"
    /\ stats.mkdtemp = 1
    /\ stats.downloads > 0
    /\ \A d \in ScratchDirs : ~Present(d)

\* the removal failed and the work directory is still there
C19_LeftoverWitness ==
    /\ caller.op = "detect"
    /\ caller.pc = "raised"
    /\ caller.error = RmtreeError
    /\ \E d \in ScratchDirs : Present(d)

\* C20 as stated: when the removal of the work directory fails, detect still
\* returns the digest it computed, or raises the error of the walk when the
\* walk had failed; it never raises the error of the removal.
C20_CleanupFailureSwallowed ==
    /\ caller.op = "detect"
    /\ caller.pc \in {"returned", "raised"}
    /\ task.cleanup \in {"kept", "emptied"}
    => IF task.raised = ""
       THEN caller.pc = "returned" /\ rdm.uuid = task.hash
       ELSE caller.pc = "raised" /\ caller.error = task.raised

----------------------------------------------------------------------------
(* Claims about a malformed mapping document.                              *)

MappingLines(ls) == LinesOfKind(ls, "Mapping(Copy)") \cup LinesOfKind(ls, "Mapping(Link)")

\* the fetch reads a mapping document that is not well-formed
MalformedDocument ==
    /\ caller.op = "fetch"
    /\ RemoteDocument # Missing
    /\ ~WellFormed(RemoteDocument)

\* C21: with a mapping document that has an invalid entry anywhere, fetch
\* never emits a "Mapping(...)" line, never resolves a rule against the remote
\* tree, never writes provision.sh, and does not end normally: the
\* document fails as a whole when it is parsed.
C21_MalformedFailsBeforeRules ==
    MalformedDocument =>
        /\ MappingLines(pushed) = {}
        /\ prov.copy = <<>> /\ prov.link = <<>>
        /\ task.pc \notin {"copy", "link", "save"}
        /\ ProvisionScripts = {}
        /\ caller.pc # "ended"

\* the first entry of the document is valid and the second is not; the
\* binder folder was downloaded and the fetch raised
C21_Witness ==
    /\ MalformedDocument
    /\ caller.pc = "raised"
    /\ Len(RemoteDocument.paths) = 2
    /\ WellFormedEntry(RemoteDocument.paths[1])
    /\ ~WellFormedEntry(RemoteDocument.paths[2])
    /\ "Fetch" \in Kinds(delivered)
    /\ caller.error = ValidationError(RemoteDocument)

----------------------------------------------------------------------------
(* Claims about entry names that hold a path separator.                    *)

SeparatorError == "ValueError: name cannot include path separators"

\* the name holds "/" or "\"
SeparatorInName(name) == \E i \in 1..Len(name) : name[i] \in {SL, BSL}

\* the entries of the running walk whose names hold a separator
RejectedEntries ==
    IF task.mode = "fetch"
    THEN {j \in 1..Len(task.plan) : SeparatorInName(task.plan[j].name)}
    ELSE {}

\* no local file or directory is the entry's local path or lies beneath it
NothingLocalAt(path) ==
    \A p \in DOMAIN files \cup dirs : ~IsPrefix(path, p)

\* the files the walk downloaded before entry j are in place
EarlierRetained(j) ==
    \A i \in 1..(j - 1) :
        LET item == task.plan[i] IN
        item.kind = "file" =>
            /\ local_file_path(item) \in DOMAIN files
            /\ (\E k \in 1..Len(pushed) : pushed[k] = FetchLine(item))
                   => files[local_file_path(item)] = item.content

\* C22: a fetch never walks past an entry whose name holds "/" or "\":
\* nothing local is created at the entry's path or beneath it, a walk that
\* ends at the entry ends with an error (the separator error, unless the
\* remote call that lists the entry failed first), and the files downloaded
\* before it stay in place.
C22_SeparatorStopsWalk ==
    \A j \in RejectedEntries :
        /\ task.pos <= j
        /\ NothingLocalAt(local_file_path(task.plan[j]))
        /\ (task.pos = j /\ task.pc = "done") =>
               /\ task.raised \in {SeparatorError, "TransportError"}
               /\ EarlierRetained(j)

\* a fetch raised the separator error for a file name holding a backslash
\* after it had downloaded a file
C22_Witness ==
    /\ caller.op = "fetch"
    /\ caller.pc = "raised"
    /\ caller.error = SeparatorError
    /\ \E j \in RejectedEntries :
           /\ task.pos = j
           /\ j > 1
           /\ Contains(task.plan[j].name, BSL)
           /\ task.plan[j - 1].kind = "file"
           /\ files[local_file_path(task.plan[j - 1])] = task.plan[j - 1].content
    /\ "Fetch" \in Kinds(delivered)

\* the same for a folder name holding a slash, met below the first level
C22_FolderWitness ==
    /\ caller.op = "fetch"
    /\ caller.pc = "raised"
    /\ caller.error = SeparatorError
    /\ \E j \in RejectedEntries :
           /\ task.pos = j
           /\ task.plan[j].kind = "folder"
           /\ "Fetch" \in Kinds(delivered)

----------------------------------------------------------------------------
(* Claims about the order and the lines of the provision script.           *)

IsCopy(line) == line.script[1] \in {"cp ", "cp -fr "}
IsLink(line) == line.script[1] = "ln -s "

\* the positions of the cp and ln lines of the script, in script order
CommandsAt(script) == {k \in 1..Len(script) : IsCopy(script[k]) \/ IsLink(script[k])}
NthCommand(script, n) ==
    script[CHOOSE k \in CommandsAt(script) :
               Cardinality({j \in CommandsAt(script) : j < k}) = n - 1]

\* the source of a rule below the mount root, the placeholder substituted
Mounted(m) ==
    os_path_join(MNT_RDM_DIR, strip(replace(m.source, PLACEHOLDER, DefaultStoragePath), SL))

\* the line is a command of the given verbs whose first operand is the
\* rule's source
CommandOf(line, verbs, m) ==
    \E v \in verbs, tail \in {<<>>, <<SL>>} :
        StartsWith(line.script, <<v>> \o ShellWord(Mounted(m) \o tail))

\* C23: every provision script starts with "#!/bin/bash" and "set -xe"; its
\* cp and ln lines are one command per rule, the copy rules first in rule
\* order and then the link rules in rule order, whatever the order of the
\* two kinds in the document.
C23_CopiesBeforeLinks ==
    ScriptWritten =>
        /\ Len(TheScript) >= 2
        /\ TheScript[1] = [script |-> <<"#!/bin/bash">>]
        /\ TheScript[2] = [script |-> <<"set -xe">>]
        /\ Cardinality(CommandsAt(TheScript)) = Len(task.copy) + Len(task.link)
        /\ \A i \in 1..Len(task.copy) :
               /\ IsCopy(NthCommand(TheScript, i))
               /\ CommandOf(NthCommand(TheScript, i), {"cp ", "cp -fr "}, task.copy[i])
        /\ \A i \in 1..Len(task.link) :
               /\ IsLink(NthCommand(TheScript, Len(task.copy) + i))
               /\ CommandOf(NthCommand(TheScript, Len(task.copy) + i), {"ln -s "}, task.link[i])

\* the document lists a link rule before a copy rule, and the script was
\* written with two copy commands and one link command
C23_Witness ==
    /\ ScriptWritten
    /\ RemoteDocument # Missing
    /\ "paths" \in DOMAIN RemoteDocument
    /\ Len(RemoteDocument.paths) = 2
    /\ RemoteDocument.paths[1].type = "link"
    /\ RemoteDocument.paths[2].type = "copy"
    /\ Len(task.copy) = 2
    /\ Len(task.link) = 1
    /\ IsLink(TheScript[Len(TheScript)])


\* two different link rules, the deeper one first
C23_LinkOrderWitness ==
    /\ ScriptWritten
    /\ Len(task.link) = 2
    /\ task.link[1].target = <<DOT, SL, "a", SL, "l">>
    /\ task.link[2].target = <<DOT, SL, "ext">>


\* the rules of the plan in script order, and the script position of the
\* command of the n-th of them
PlannedRules == task.copy \o task.link
CommandPosition(script, n) ==
    CHOOSE k \in CommandsAt(script) : Cardinality({j \in CommandsAt(script) : j < k}) = n - 1

\* the target of a rule as it is written, its depth below "." and its parent
WrittenTarget(m) == rstrip(m.target, SL)
Depth(path) == Cardinality({i \in 1..Len(path) : path[i] = SL})
ParentOf(path) ==
    SubStr(path, 1, (CHOOSE i \in 1..Len(path) :
                         path[i] = SL /\ \A j \in (i + 1)..Len(path) : path[j] # SL) - 1)

\* between the previous command and command n the script holds the line
\* "mkdir -p <dir>"
MkdirBefore(script, n, dir) ==
    \E j \in 1..(CommandPosition(script, n) - 1) :
        /\ n > 1 => j > CommandPosition(script, n - 1)
        /\ script[j] = [script |-> <<"mkdir -p ">> \o ShellWord(dir)]

\* C24: in every provision script the command of a rule whose target lies at
\* depth two or more ("./a/b") comes after a "mkdir -p" line, written for the
\* same rule, that creates the parent of the target; for file copies,
\* directory copies and links.
C24_ParentCreatedFirst ==
    ScriptWritten =>
        \A n \in 1..Len(PlannedRules) :
            Depth(WrittenTarget(PlannedRules[n])) >= 2 =>
                MkdirBefore(TheScript, n, ParentOf(WrittenTarget(PlannedRules[n])))

\* a script with a link whose target is "./a/l"
C24_Witness ==
    /\ ScriptWritten
    /\ \E n \in 1..Len(task.link) :
           /\ task.link[n].target = <<DOT, SL, "a", SL, "l">>
           /\ MkdirBefore(TheScript, Len(task.copy) + n, <<DOT, SL, "a">>)

\* a script with a file copy to "./a/b" and a directory copy to "./a/d"
C24_CopyWitness ==
    /\ ScriptWritten
    /\ Len(task.copy) = 3
    /\ task.copy[2].target = <<DOT, SL, "a", SL, "b">>
    /\ task.copy[3].target = <<DOT, SL, "a", SL, "d">>
    /\ prov.copy[2].source # "folder"
    /\ prov.copy[3].source = "folder"
    /\ MkdirBefore(TheScript, 2, <<DOT, SL, "a">>)
    /\ MkdirBefore(TheScript, 3, <<DOT, SL, "a">>)


\* the copy rules of the plan whose source is a single file and whose target
\* is written with a trailing slash
FileCopiesIntoDirectory ==
    {i \in 1..Len(task.copy) :
        /\ prov.copy[i].source # "folder"
        /\ Len(task.copy[i].target) > 2
        /\ task.copy[i].target[Len(task.copy[i].target)] = SL}

\* C25: for every copy rule whose source is a single file and whose target T/
\* is written with a trailing slash, the script holds "mkdir -p T/" and then
\* "cp <source> T/", the slash kept, as in the example of the Provisioner
\* docstring.
C25_FileIntoDirectoryKeepsSlash ==
    ScriptWritten =>
        \A i \in FileCopiesIntoDirectory :
            \E k \in 1..(Len(TheScript) - 1) :
                /\ TheScript[k] = [script |-> <<"mkdir -p ">> \o ShellWord(task.copy[i].target)]
                /\ TheScript[k + 1] =
                       [script |-> <<"cp ">> \o ShellWord(Mounted(task.copy[i])) \o <<" ">>
                                   \o ShellWord(task.copy[i].target)]

----------------------------------------------------------------------------
(* Claims that relate locate and fetch.                                    *)

\* a folder of the remote project: the remote path of its parent and the
\* folder itself
RemoteFolder(at, folder) == [at |-> at, folder |-> folder]

\* the folder _calculate_hash downloads for an identity path: the first
\* binder folder of the storage
LocateConfiguration(project, path) ==
    LET st == storage(project, BeforeSlash(rstrip(path, SL)))
    IN  IF binder_folders(st) = <<>> THEN {}
        ELSE {RemoteFolder(<<>>, binder_folders(st)[1])}

\* the folders _fetch_binder downloads and searches for a mapping document
\* for the same identity path: the binder folders of the requested folder
FetchConfiguration(project, path) ==
    LET p == rstrip(path, SL)
        st == storage(project, BeforeSlash(p))
        found == IF Contains(p, SL) THEN find_by_path(st, AfterSlash(p))
                 ELSE [kind |-> "folder", node |-> st]
    IN  IF found = Missing \/ found.kind # "folder" THEN {}
        ELSE {RemoteFolder(RemotePath(p), binder_folders(found.node)[i]) :
                  i \in 1..Len(binder_folders(found.node))}

\* C26: whenever locate returned a digest as uuid, the folder it hashed is
\* the configuration folder a fetch of the same identity path downloads and
\* reads the mapping document from, and every folder that fetch searches for
\* a mapping document was hashed.
C26_DigestCoversFetchedConfiguration ==
    \A h \in hist.hashed :
        LocateConfiguration(h.remote, h.path) = FetchConfiguration(h.remote, h.path)


\* the relative paths of the files of a remote folder, at any depth
RECURSIVE FilesIn(_)
FilesIn(folder) ==
    {folder.files[i].name : i \in 1..Len(folder.files)}
    \cup UNION {{folder.folders[i].name \o <<SL>> \o rel : rel \in FilesIn(folder.folders[i])} :
                   i \in 1..Len(folder.folders)}

\* the local directory of a configuration folder of the running fetch
ConfigurationDir(c) == task.output_dir \o <<SL>> \o c.folder.name

\* the local paths of the files of the configuration folders of the running
\* fetch, and of the provision script of each
LocalConfigurationFiles ==
    UNION {{ConfigurationDir(c) \o <<SL>> \o rel : rel \in FilesIn(c.folder)}
           \cup {ConfigurationDir(c) \o <<SL, "provision.sh">>} :
               c \in FetchConfiguration(remote, task.spec.path)}

\* the files and directories a step creates or writes
Written == {p \in DOMAIN files' : p \notin DOMAIN files \/ files'[p] # files[p]}
Created == dirs' \ dirs

\* C27: a fetch whose requested folder holds a configuration folder writes
\* local files only for the files inside the configuration folders and for
\* the provision.sh of each, and creates directories only at or below the
\* local directories of the configuration folders.
C27_OnlyConfigurationFetched ==
    [][(caller.op = "fetch" /\ task'.binder_output_dirs # <<>>) =>
           /\ Written \subseteq LocalConfigurationFiles
           /\ \A d \in Created :
                  \E c \in FetchConfiguration(remote, task.spec.path) :
                      IsPrefix(ConfigurationDir(c), d)]_vars

\* a fetch of a folder that holds a file, a configuration folder and another
\* folder has ended: the local files are those of the configuration folder
\* and provision.sh
C27_Witness ==
    /\ caller.op = "fetch"
    /\ caller.pc = "ended"
    /\ task.run = 1
    /\ task.binder_output_dirs # <<>>
    /\ \E st \in {storage(remote, BeforeSlash(task.spec.path))} :
           /\ st.files # <<>>
           /\ \E i \in 1..Len(st.folders) : st.folders[i].name \notin BinderNames
    /\ DOMAIN files = LocalConfigurationFiles
    /\ ProvisionScripts # {}

\* the same with both configuration folders, a script in each
C27_BothWitness ==
    /\ caller.op = "fetch"
    /\ caller.pc = "ended"
    /\ task.run = 1
    /\ Len(task.binder_output_dirs) = 2
    /\ DOMAIN files = LocalConfigurationFiles
    /\ Cardinality(ProvisionScripts) = 2

----------------------------------------------------------------------------
(* Claims about where fetch writes.                                        *)

\* the segments of a path, and the segments left once "." and ".." are
\* resolved (os.path.normpath)
PathSegments(path) == SelectSeq(path, LAMBDA t : t # SL)
RECURSIVE NormPath(_, _)
NormPath(segs, acc) ==
    IF segs = <<>> THEN acc
    ELSE IF Head(segs) = ".."
    THEN NormPath(Tail(segs), IF acc = <<>> THEN acc ELSE SubSeq(acc, 1, Len(acc) - 1))
    ELSE IF Head(segs) = DOT THEN NormPath(Tail(segs), acc)
    ELSE NormPath(Tail(segs), Append(acc, Head(segs)))
Resolved(path) == NormPath(PathSegments(path), <<>>)

\* the path denotes output_dir or something below it
InsideOutputDir(path) == IsPrefix(Resolved(OUTPUT_DIR), Resolved(path))

\* the entries of the remote project all pass the separator check
RECURSIVE NamesPass(_)
NamesPass(folder) ==
    /\ \A i \in 1..Len(folder.files) : ~SeparatorInName(folder.files[i].name)
    /\ \A i \in 1..Len(folder.folders) :
           ~SeparatorInName(folder.folders[i].name) /\ NamesPass(folder.folders[i])

\* C28: when every entry name of the remote project passes the separator
\* check, every local file of a fetch, and every local directory that did
\* not exist before, lies inside output_dir.
C28_WritesInsideOutputDir ==
    (caller.op = "fetch" /\ \A i \in 1..Len(remote.storages) : NamesPass(remote.storages[i])) =>
        /\ \A p \in DOMAIN files : InsideOutputDir(p)
        /\ \A d \in dirs : Resolved(d) \in {Resolved(ROOT), Resolved(TMP)} \/ InsideOutputDir(d)

----------------------------------------------------------------------------
(* Claims about the walk and the caller's pulls.                           *)

\* the downloads of the running fetch that were started and have neither
\* completed nor failed
DownloadsInFlight ==
    stats.downloads - stats.interrupted
        - Cardinality({k \in 1..Len(pushed) : pushed[k].kind = "Fetch"})

C29_InFlightWitness ==
    /\ caller.op = "fetch"
    /\ caller.pc = "waiting"
    /\ task.pc = "writing"
    /\ DownloadsInFlight = 1
    /\ stats.downloads = 2

----------------------------------------------------------------------------
(* Claims about the bytes fed to the hash.                                 *)

\* C30: two directories that are fed the same byte sequence have the same
\* relative paths, the same regular files among them and the same file
\* contents.
C30_FeedDeterminesDirectory ==
    \A i, j \in 1..Len(hist.digests) :
        encode(hist.digests[i].feed) = encode(hist.digests[j].feed)
            => SameTree(hist.digests[i], hist.digests[j])

====
